---- MODULE Spec2Model ----
(***************************************************************************)
(* Lunar colony builder: the React component App (src/App.tsx is the       *)
(* extended variant with terrain heights, atmosphere and food;             *)
(* src/unnamed/part_000 is the basic variant) and the goal service it      *)
(* calls.                                                                  *)
(*                                                                         *)
(* React state (grid, stats, currentGoal, ...) is written by the setters   *)
(* the handlers call.  The handlers do not read that state: they read the  *)
(* refs gridRef, statsRef, goalRef, ... and the values their closures      *)
(* captured in the last render.  Refs and closures are refreshed by a      *)
(* re-render and its effects (App.tsx 84-89), which React runs as a step   *)
(* of its own after the handler has returned; the action Render is that    *)
(* step.  A state variable here holds the value after every queued         *)
(* updater has been applied; the ...Ref variables hold what the handlers   *)
(* see.                                                                    *)
(***************************************************************************)
EXTENDS Integers, Sequences, FiniteSets, TLC

VARIABLES variant, gameStarted, aiEnabled, autoGrowth,
          grid, stats, currentGoal, isGeneratingGoal,
          unlockedTechs, unlockedBuildings,
          gridRef, statsRef, goalRef, isGeneratingGoalRef,
          aiEnabledRef, autoGrowthRef, unlockedBuildingsRef, shownTechs,
          inFlight, retryTimers, nextGoalId, credited, clicks, last,
          service, ticks

vars == <<variant, gameStarted, aiEnabled, autoGrowth,
          grid, stats, currentGoal, isGeneratingGoal,
          unlockedTechs, unlockedBuildings,
          gridRef, statsRef, goalRef, isGeneratingGoalRef,
          aiEnabledRef, autoGrowthRef, unlockedBuildingsRef, shownTechs,
          inFlight, retryTimers, nextGoalId, credited, clicks, last,
          service, ticks>>

-----------------------------------------------------------------------------
(* Bounds of the exploration *)

MapN == 5            \* side of the map chosen on the start screen
MaxDay == 26         \* last day a tick is explored from
MaxClicks == 3       \* tile clicks explored
MaxGoals == 3        \* goal instances the service hands out
MaxCredits == 2      \* claims explored per goal instance
MaxInFlight == 2     \* goal requests explored at the same time
MaxTechs == 4        \* length of the unlocked-tech list explored

Undef == -99         \* JavaScript undefined (ownerX, ownerY, height, ...)
Scale == 10          \* oxygen, co2 and food are held in tenths

Variants == {"basic", "extended"}

-----------------------------------------------------------------------------
(* Catalog *)

BuildingType == {"None", "Road", "GreenRoad", "Residential", "Commercial",
                 "Industrial", "Agriculture", "Park", "SolarPanel",
                 "FusionReactor", "ResearchLab"}

Cfg(c, w, h, pop, inc, pow, sci, food, o2, co2) ==
  [cost |-> c, width |-> w, height |-> h, popGen |-> pop, incomeGen |-> inc,
   powerGen |-> pow, scienceGen |-> sci, foodGen |-> food,
   oxygenGen |-> o2, co2Gen |-> co2]

\* cost, popGen and incomeGen of Road, Residential, Commercial, Industrial and
\* Park are those of src/constants.tsx; footprints, power, science and the
\* bio yields (in tenths) are not in the sources at hand.
BUILDINGS ==
  [k \in BuildingType |->
     CASE k = "None"          -> Cfg(0,    1, 1, 0, 0,   0,  0,  0,   0,   0)
       [] k = "Road"          -> Cfg(15,   1, 1, 0, 0,   0,  0,  0,   0,   0)
       [] k = "GreenRoad"     -> Cfg(40,   1, 1, 0, 0,   0,  0,  0,  10, -10)
       [] k = "Residential"   -> Cfg(150,  1, 1, 5, 0,   0,  0,  0,   0,   0)
       [] k = "Commercial"    -> Cfg(300,  1, 1, 0, 15, -4,  0,  0,   0,   0)
       [] k = "Industrial"    -> Cfg(500,  2, 2, 0, 40, -10, 0,  0,   0, 200)
       [] k = "Agriculture"   -> Cfg(200,  2, 2, 0, 5,  -4,  0, 100, 50, -300)
       [] k = "Park"          -> Cfg(100,  2, 2, 1, 0,   0,  0,  0,  80, -600)
       [] k = "SolarPanel"    -> Cfg(120,  1, 1, 0, 0,  10,  0,  0,   0,   0)
       [] k = "FusionReactor" -> Cfg(3000, 2, 2, 0, 0, 200,  0,  0,   0,   0)
       [] k = "ResearchLab"   -> Cfg(1000, 2, 2, 0, 0, -10,  5,  0,   0,   0)]

INITIAL_MONEY == 2000

\* per-colonist rates per tick, in tenths
POP_FOOD_CONSUMPTION == 5
POP_O2_CONSUMPTION == 100
POP_CO2_PRODUCTION == 10

TechIds == {"basics", "industry", "ecology", "fusion"}

Tech(c, pre, kinds) == [cost |-> c, prerequisites |-> pre, unlocks |-> kinds]

TECH_TREE ==
  [t \in TechIds |->
     CASE t = "basics"   -> Tech(0, {}, {"Road", "Residential", "Park",
                                         "SolarPanel"})
       [] t = "industry" -> Tech(0, {"basics"}, {"Commercial", "Industrial",
                                                 "ResearchLab"})
       [] t = "ecology"  -> Tech(0, {"basics"}, {"GreenRoad", "Agriculture"})
       [] t = "fusion"   -> Tech(5, {"industry"}, {"FusionReactor"})]

INITIAL_UNLOCKED_TECHS == <<"basics">>

\* faulty variant: only the tech unlocked last is looked up
DeriveUnlockedLast(techs) ==
  {"None"} \cup TECH_TREE[techs[Len(techs)]].unlocks

\* the effect that derives the placeable kinds from the unlocked techs
DeriveUnlocked(techs) ==
  {"None"} \cup UNION {TECH_TREE[techs[i]].unlocks : i \in 1 .. Len(techs)}

-----------------------------------------------------------------------------
(* Grid *)

Coord == 0 .. (MapN - 1)
Pos == Coord \X Coord

\* terrain height of tile (x,y) on a map of side size: 1 on the central
\* plateau (distance to the centre < 5), -1 in the crater (distance to
\* (0.2 size, 0.7 size) < 4), else 0; both tests squared and cleared of
\* fractions
TerrainHeight(x, y, size) ==
  LET plateau == (2*x - size)*(2*x - size) + (2*y - size)*(2*y - size) < 100
      crater == (10*x - 2*size)*(10*x - 2*size)
                  + (10*y - 7*size)*(10*y - 7*size) < 1600
  IN IF crater THEN -1 ELSE IF plateau THEN 1 ELSE 0

EmptyTile(h) == [buildingType |-> "None", ownerX |-> Undef, ownerY |-> Undef,
                 height |-> h]

createInitialGrid(v, size) ==
  [p \in Pos |-> EmptyTile(IF v = "extended"
                             THEN TerrainHeight(p[1], p[2], size)
                             ELSE Undef)]

\* the w x h rectangle anchored at (x,y)
Rect(x, y, w, h) == {p \in (x .. x + w - 1) \X (y .. y + h - 1) : TRUE}

InitialStats(v) ==
  [money |-> INITIAL_MONEY, population |-> 0, day |-> 1, science |-> 0,
   powerSupply |-> 0, powerDemand |-> 0,
   oxygen |-> IF v = "extended" THEN 100 * Scale ELSE Undef,
   co2 |-> IF v = "extended" THEN 400 * Scale ELSE Undef,
   food |-> IF v = "extended" THEN 100 * Scale ELSE Undef]

-----------------------------------------------------------------------------
(* Goals *)

NoGoal == [id |-> 0, targetType |-> "none", targetValue |-> 0,
           buildingType |-> "None", reward |-> 0, completed |-> FALSE]

\* what the goal service may answer (generateCityGoal spreads the answer and
\* sets completed to false)
GoalAnswers ==
  { [targetType |-> "money", targetValue |-> 2000, buildingType |-> "None",
     reward |-> 100],
    [targetType |-> "building_count", targetValue |-> 1,
     buildingType |-> "Residential", reward |-> 60] }

MakeGoal(a, id) ==
  [id |-> id, targetType |-> a.targetType, targetValue |-> a.targetValue,
   buildingType |-> a.buildingType, reward |-> a.reward, completed |-> FALSE]

-----------------------------------------------------------------------------
(* The last operation and what it did (history, read by the properties) *)

\* ticks counts the ticks run since construction.
NoOp == [op |-> "none", x |-> Undef, y |-> Undef, kind |-> "None",
         ok |-> FALSE, money0 |-> 0, cost |-> 0, resCount |-> 0,
         pop0 |-> 0, met |-> FALSE, goal |-> 0, gone |-> "None",
         rootX |-> Undef, rootY |-> Undef, tech |-> "none", science0 |-> 0,
         redo |-> FALSE, moneyB |-> 0, oxygen0 |-> 0, co20 |-> 0]

-----------------------------------------------------------------------------
(* The extended goal service (services/geminiService.ts): the cooldown      *)
(* after an error of the external service and the local fallback goals.     *)
(* The variable service holds the module's apiCooldownUntil, the clock      *)
(* Date.now() reads, the external requests awaited, and a history of the    *)
(* calls (read by the properties)                                           *)

COOLDOWN_DURATION_MS == 120000

MaxCalls == 3
MaxAdvances == 4

FallbackTemplate(type, kind, value, rew) ==
  [targetType |-> type, buildingType |-> kind, targetValue |-> value,
   reward |-> rew]

FALLBACK_GOALS ==
  << FallbackTemplate("population", "None", 50, 500),
     FallbackTemplate("money", "None", 5000, 200),
     FallbackTemplate("science", "None", 100, 1000),
     FallbackTemplate("building_count", "SolarPanel", 5, 300),
     FallbackTemplate("building_count", "Agriculture", 3, 450),
     FallbackTemplate("building_count", "Commercial", 2, 600) >>

\* faulty variant: the template's target is kept for every metric
getFallbackGoalFixed(st, template) ==
  [source |-> "fallback",
   targetType |-> template.targetType,
   targetValue |-> template.targetValue,
   buildingType |-> template.buildingType,
   reward |-> template.reward,
   completed |-> FALSE]

\* the template's target, rescaled to the stats for three of the metrics
getFallbackGoal(st, template) ==
  [source |-> "fallback",
   targetType |-> template.targetType,
   targetValue |->
     CASE template.targetType = "money" -> ((st.money * 3) \div 2) + 1000
       [] template.targetType = "population" -> ((st.population * 6) \div 5) + 15
       [] template.targetType = "science" -> ((st.science * 6) \div 5) + 50
       [] OTHER -> template.targetValue,
   buildingType |-> template.buildingType,
   reward |-> template.reward,
   completed |-> FALSE]

\* the errors the awaited request may throw: the code and the status they
\* carry (0 and "" when absent, as for the SyntaxError of JSON.parse)
ApiError(c, s) == [code |-> c, status |-> s]

ApiErrors ==
  { ApiError(429, ""), ApiError(500, ""), ApiError(0, "RESOURCE_EXHAUSTED"),
    ApiError(0, "UNKNOWN"), ApiError(400, "INVALID_ARGUMENT"),
    ApiError(0, "") }

\* faulty variant: a server error (500) does not start the cooldown
handleApiErrorQuotaOnly(error, now, until) ==
  IF error.status = "RESOURCE_EXHAUSTED" \/ error.code = 429
    THEN now + COOLDOWN_DURATION_MS
    ELSE until

\* the value of apiCooldownUntil after handleApiError
handleApiError(error, now, until) ==
  IF \/ error.status = "RESOURCE_EXHAUSTED"
     \/ error.code = 429
     \/ error.code = 500
     \/ error.status = "UNKNOWN"
    THEN now + COOLDOWN_DURATION_MS
    ELSE until

NoResult ==
  [source |-> "none", targetType |-> "none", targetValue |-> 0,
   buildingType |-> "None", reward |-> 0, completed |-> FALSE]

ServiceIdle ==
  [now |-> 0, apiCooldownUntil |-> 0, pending |-> 0, calls |-> 0,
   externalCalls |-> 0, localCalls |-> 0, advances |-> 0, returned |-> 0,
   errorAt |-> Undef, op |-> "none", result |-> NoResult]

-----------------------------------------------------------------------------
(* Initial state: the component is mounted, the start screen is showing *)

Init ==
  /\ variant \in Variants
  /\ gameStarted = FALSE
  /\ aiEnabled = TRUE
  /\ autoGrowth = FALSE
  /\ grid = createInitialGrid(variant, MapN)
  /\ stats = InitialStats(variant)
  /\ currentGoal = NoGoal
  /\ isGeneratingGoal = FALSE
  /\ unlockedTechs = INITIAL_UNLOCKED_TECHS
  /\ unlockedBuildings = DeriveUnlocked(INITIAL_UNLOCKED_TECHS)
  /\ gridRef = grid
  /\ statsRef = stats
  /\ goalRef = currentGoal
  /\ isGeneratingGoalRef = FALSE
  /\ aiEnabledRef = TRUE
  /\ autoGrowthRef = FALSE
  /\ unlockedBuildingsRef = unlockedBuildings
  /\ shownTechs = unlockedTechs
  /\ inFlight = 0
  /\ retryTimers = 0
  /\ nextGoalId = 1
  /\ credited = [g \in 1 .. MaxGoals |-> 0]
  /\ clicks = 0
  /\ last = NoOp
  /\ service = ServiceIdle
  /\ ticks = 0

-----------------------------------------------------------------------------
(* Re-render and its effects: the refs and the values the handlers closed   *)
(* over catch up with the state; the tech effect recomputes the placeable   *)
(* kinds, which reach the handlers with the render after this one           *)

Render ==
  /\ gameStarted
  /\ \/ gridRef # grid
     \/ statsRef # stats
     \/ goalRef # currentGoal
     \/ isGeneratingGoalRef # isGeneratingGoal
     \/ autoGrowthRef # autoGrowth
     \/ unlockedBuildingsRef # unlockedBuildings
     \/ unlockedBuildings # DeriveUnlocked(unlockedTechs)
     \/ shownTechs # unlockedTechs
  /\ gridRef' = grid
  /\ statsRef' = stats
  /\ goalRef' = currentGoal
  /\ isGeneratingGoalRef' = isGeneratingGoal
  /\ aiEnabledRef' = aiEnabled
  /\ autoGrowthRef' = autoGrowth
  /\ unlockedBuildingsRef' = unlockedBuildings
  /\ unlockedBuildings' = DeriveUnlocked(unlockedTechs)
  /\ shownTechs' = unlockedTechs
  /\ UNCHANGED <<ticks, service, variant, gameStarted, aiEnabled, autoGrowth, grid, stats,
                 currentGoal, isGeneratingGoal, unlockedTechs, inFlight,
                 retryTimers, nextGoalId, credited, clicks, last>>

-----------------------------------------------------------------------------
(* Start screen: handleStart and the render that follows it, whose effect   *)
(* requests the first goal when the AI is enabled                           *)

handleStart(enabled, size) ==
  /\ ~gameStarted
  /\ gameStarted' = TRUE
  /\ aiEnabled' = enabled
  /\ aiEnabledRef' = enabled
  /\ grid' = createInitialGrid(variant, size)
  /\ gridRef' = grid'
  /\ IF enabled
       THEN /\ isGeneratingGoal' = TRUE
            /\ inFlight' = 1
       ELSE UNCHANGED <<isGeneratingGoal, inFlight>>
  /\ last' = [NoOp EXCEPT !.op = "start"]
  /\ UNCHANGED <<ticks, service, variant, autoGrowth, stats, currentGoal, unlockedTechs,
                 unlockedBuildings, statsRef, goalRef, isGeneratingGoalRef,
                 autoGrowthRef, unlockedBuildingsRef,
                 shownTechs, retryTimers,
                 nextGoalId, credited, clicks>>

onToggleAutoGrowth ==
  /\ gameStarted
  /\ autoGrowth' = ~autoGrowthRef
  /\ autoGrowth' # autoGrowth
  /\ last' = [NoOp EXCEPT !.op = "toggle"]
  /\ UNCHANGED <<ticks, service, variant, gameStarted, aiEnabled, grid, stats, currentGoal,
                 isGeneratingGoal, unlockedTechs, unlockedBuildings, gridRef,
                 statsRef, goalRef, isGeneratingGoalRef, aiEnabledRef,
                 autoGrowthRef, unlockedBuildingsRef,
                 shownTechs, inFlight, retryTimers,
                 nextGoalId, credited, clicks>>

-----------------------------------------------------------------------------
(* Player clicks *)

DEMOLISH_COST == 50

\* the occupancy and flatness test of handleTileClick
\* faulty variant: a road tile counts as free for every tool
PlayerOccupiedRoadFree(v, g, x, y, tool) ==
  LET cfg == BUILDINGS[tool]
  IN \E p \in Rect(x, y, cfg.width, cfg.height) :
       \/ /\ g[p].buildingType # "None"
          /\ ~(v = "extended" /\ g[p].buildingType = "Road")
       \/ /\ v = "extended"
          /\ g[p].height # g[<<x, y>>].height

PlayerOccupied(v, g, x, y, tool) ==
  LET cfg == BUILDINGS[tool]
  IN \E p \in Rect(x, y, cfg.width, cfg.height) :
       \/ /\ g[p].buildingType # "None"
          /\ ~(v = "extended" /\ tool = "GreenRoad"
                 /\ g[p].buildingType = "Road")
       \/ /\ v = "extended"
          /\ g[p].height # g[<<x, y>>].height

\* faulty variant: the tool is not looked up in the unlocked kinds
PlayerAcceptsLocked(v, g, unlocked, x, y, tool) ==
  /\ ~(x + BUILDINGS[tool].width > MapN \/ y + BUILDINGS[tool].height > MapN)
  /\ ~PlayerOccupied(v, g, x, y, tool)

\* the checks of handleTileClick before the price check
PlayerAccepts(v, g, unlocked, x, y, tool) ==
  /\ tool \in unlocked
  /\ ~(x + BUILDINGS[tool].width > MapN \/ y + BUILDINGS[tool].height > MapN)
  /\ ~PlayerOccupied(v, g, x, y, tool)

\* faulty variant: only the origin tile is rewritten
ApplyOrigin(g, x, y, kind) ==
  [g EXCEPT ![<<x, y>>] = [@ EXCEPT !.buildingType = kind,
                                    !.ownerX = x, !.ownerY = y]]

\* every tile of the footprint is rewritten with the kind and the origin
ApplyFootprint(g, x, y, kind) ==
  LET cfg == BUILDINGS[kind]
  IN [p \in Pos |->
        IF p \in Rect(x, y, cfg.width, cfg.height)
          THEN [g[p] EXCEPT !.buildingType = kind, !.ownerX = x, !.ownerY = y]
          ELSE g[p]]

\* faulty variant: only the clicked tile is cleared
ClearClicked(v, g, x, y) ==
  [g EXCEPT ![<<x, y>>] = EmptyTile(IF v = "extended" THEN @.height ELSE Undef)]

\* faulty variant: the cleared tiles are levelled to height 0
ClearFootprintLevelled(v, g, x, y) ==
  LET clicked == g[<<x, y>>]
      rootX == IF clicked.ownerX # Undef THEN clicked.ownerX ELSE x
      rootY == IF clicked.ownerY # Undef THEN clicked.ownerY ELSE y
      targetConfig == BUILDINGS[g[<<rootX, rootY>>].buildingType]
  IN [p \in Pos |->
        IF p \in Rect(rootX, rootY, targetConfig.width, targetConfig.height)
          THEN EmptyTile(0)
          ELSE g[p]]

\* the footprint of the building rooted at the clicked tile's root is
\* cleared, as far as it lies inside the map
ClearFootprint(v, g, x, y) ==
  LET clicked == g[<<x, y>>]
      rootX == IF clicked.ownerX # Undef THEN clicked.ownerX ELSE x
      rootY == IF clicked.ownerY # Undef THEN clicked.ownerY ELSE y
      targetConfig == BUILDINGS[g[<<rootX, rootY>>].buildingType]
  IN [p \in Pos |->
        IF p \in Rect(rootX, rootY, targetConfig.width, targetConfig.height)
          THEN EmptyTile(IF v = "extended" THEN g[p].height ELSE Undef)
          ELSE g[p]]

\* the root of the building that covers the clicked tile
RootAt(g, x, y) ==
  <<IF g[<<x, y>>].ownerX # Undef THEN g[<<x, y>>].ownerX ELSE x,
    IF g[<<x, y>>].ownerY # Undef THEN g[<<x, y>>].ownerY ELSE y>>

\* faulty variant: the fee is not compared with the money
CanDemolishFree(g, st, x, y) == g[<<x, y>>].buildingType # "None"

\* the bulldozer acts on a built tile when the flat fee can be paid
CanDemolish(g, st, x, y) ==
  /\ g[<<x, y>>].buildingType # "None"
  /\ st.money >= DEMOLISH_COST

ClickFrame ==
  UNCHANGED <<ticks, service, variant, gameStarted, aiEnabled, autoGrowth, currentGoal,
              isGeneratingGoal, unlockedTechs, unlockedBuildings, gridRef,
              statsRef, goalRef, isGeneratingGoalRef, aiEnabledRef,
              autoGrowthRef, unlockedBuildingsRef,
                 shownTechs, inFlight, retryTimers,
              nextGoalId, credited>>

handleTileClick(x, y, tool) ==
  /\ gameStarted
  /\ clicks < MaxClicks
  /\ clicks' = clicks + 1
  /\ ClickFrame
  /\ LET currentGrid == gridRef
         currentStats == statsRef
         buildingConfig == BUILDINGS[tool]
         \* the click before this one demolished a building of this kind
         \* rooted at this tile
         Redone == /\ last.op = "demolish"
                   /\ last.ok
                   /\ last.gone = tool
                   /\ last.rootX = x
                   /\ last.rootY = y
         note(o, done, c) == [NoOp EXCEPT !.op = o, !.x = x, !.y = y,
                                !.kind = tool, !.ok = done,
                                !.money0 = stats.money, !.cost = c]
     IN IF tool = "None"
          THEN IF CanDemolish(currentGrid, currentStats, x, y)
                 THEN /\ grid' = ClearFootprint(variant, currentGrid, x, y)
                      /\ stats' = [stats EXCEPT !.money = @ - DEMOLISH_COST]
                      /\ last' = [note("demolish", TRUE, DEMOLISH_COST) EXCEPT
                                    !.gone = currentGrid[RootAt(currentGrid,
                                                                x, y)].buildingType,
                                    !.rootX = RootAt(currentGrid, x, y)[1],
                                    !.rootY = RootAt(currentGrid, x, y)[2]]
                 ELSE /\ UNCHANGED <<grid, stats>>
                      /\ last' = note("demolish", FALSE, 0)
          ELSE IF /\ PlayerAccepts(variant, currentGrid,
                                   unlockedBuildingsRef, x, y, tool)
                  /\ currentStats.money >= buildingConfig.cost
                 THEN /\ stats' = [stats EXCEPT
                                     !.money = @ - buildingConfig.cost]
                      /\ grid' = ApplyFootprint(currentGrid, x, y, tool)
                      /\ last' = [note("place", TRUE, buildingConfig.cost)
                                    EXCEPT !.redo = Redone,
                                           !.moneyB = IF Redone
                                                        THEN last.money0
                                                        ELSE 0]
                 ELSE /\ UNCHANGED <<grid, stats>>
                      /\ last' = note("place", FALSE, 0)

-----------------------------------------------------------------------------
(* Goals: fetchNewGoal, the answer of the service, the retry, the claim *)

GoalFrame ==
  UNCHANGED <<ticks, service, variant, gameStarted, aiEnabled, autoGrowth, grid,
              unlockedTechs, unlockedBuildings, gridRef, statsRef, goalRef,
              isGeneratingGoalRef, aiEnabledRef, autoGrowthRef,
              unlockedBuildingsRef,
                 shownTechs, clicks>>

\* fetchNewGoal as called from a handler of the last render: it returns at
\* once when that render saw a request in flight or the AI is disabled
FetchStarts == ~isGeneratingGoalRef /\ aiEnabledRef

\* the awaited generateCityGoal resolves with a goal
GoalArrives(answer) ==
  /\ inFlight > 0
  /\ nextGoalId <= MaxGoals
  /\ currentGoal' = MakeGoal(answer, nextGoalId)
  /\ nextGoalId' = nextGoalId + 1
  /\ isGeneratingGoal' = FALSE
  /\ inFlight' = inFlight - 1
  /\ last' = [NoOp EXCEPT !.op = "arrive", !.goal = currentGoal.id]
  /\ GoalFrame
  /\ UNCHANGED <<stats, retryTimers, credited>>

\* the basic service resolves with null: a retry is armed
GoalFails ==
  /\ variant = "basic"
  /\ inFlight > 0
  /\ retryTimers = 0
  /\ inFlight' = inFlight - 1
  /\ retryTimers' = IF aiEnabledRef THEN retryTimers + 1 ELSE retryTimers
  /\ isGeneratingGoal' = FALSE
  /\ last' = [NoOp EXCEPT !.op = "fail"]
  /\ GoalFrame
  /\ UNCHANGED <<stats, currentGoal, nextGoalId, credited>>

\* faulty variant: the retry returns at once when a request is in flight
RetryFiresUnlessInFlight ==
  /\ retryTimers > 0
  /\ inFlight < MaxInFlight
  /\ retryTimers' = retryTimers - 1
  /\ IF aiEnabledRef /\ ~isGeneratingGoal
       THEN /\ isGeneratingGoal' = TRUE
            /\ inFlight' = inFlight + 1
       ELSE UNCHANGED <<isGeneratingGoal, inFlight>>
  /\ last' = [NoOp EXCEPT !.op = "retry"]
  /\ GoalFrame
  /\ UNCHANGED <<stats, currentGoal, nextGoalId, credited>>

\* the retry timer fires the fetchNewGoal that armed it, whose closure saw
\* no request in flight
RetryFires ==
  /\ retryTimers > 0
  /\ inFlight < MaxInFlight
  /\ retryTimers' = retryTimers - 1
  /\ IF aiEnabledRef
       THEN /\ isGeneratingGoal' = TRUE
            /\ inFlight' = inFlight + 1
       ELSE UNCHANGED <<isGeneratingGoal, inFlight>>
  /\ last' = [NoOp EXCEPT !.op = "retry"]
  /\ GoalFrame
  /\ UNCHANGED <<stats, currentGoal, nextGoalId, credited>>

\* the guard of handleClaimReward, on the goal its render saw
ClaimGuard(goal) == goal # NoGoal /\ goal.completed

handleClaimReward ==
  /\ gameStarted
  /\ ClaimGuard(goalRef)
  /\ credited[goalRef.id] < MaxCredits
  /\ inFlight < MaxInFlight
  /\ stats' = [stats EXCEPT !.money = @ + goalRef.reward]
  /\ credited' = [credited EXCEPT ![goalRef.id] = @ + 1]
  /\ currentGoal' = NoGoal
  /\ IF FetchStarts
       THEN /\ isGeneratingGoal' = TRUE
            /\ inFlight' = inFlight + 1
       ELSE UNCHANGED <<isGeneratingGoal, inFlight>>
  /\ last' = [NoOp EXCEPT !.op = "claim", !.goal = goalRef.id,
                          !.money0 = stats.money, !.cost = 0 - goalRef.reward]
  /\ GoalFrame
  /\ UNCHANGED <<retryTimers, nextGoalId>>

-----------------------------------------------------------------------------
(* Tick: the aggregation pass *)

\* grid.flat(): rows from y = 0, each row from x = 0
RowMajor == [i \in 1 .. (MapN * MapN) |-> <<(i - 1) % MapN, (i - 1) \div MapN>>]

RootId(g, p) ==
  IF g[p].ownerX # Undef THEN <<g[p].ownerX, g[p].ownerY>> ELSE p

NoTotals == [processedRoots |-> {}, powerGen |-> 0, powerDrain |-> 0,
             bioFoodGen |-> 0, bioO2Gen |-> 0, bioCO2Gen |-> 0,
             dailyIncome |-> 0, dailyPopGrowth |-> 0, dailyScience |-> 0,
             buildingCounts |-> [k \in BuildingType |-> 0]]

\* the yields of the building of tile p are added and its root is remembered
AddRoot(g, p, acc) ==
  LET tile == g[p]
      config == BUILDINGS[tile.buildingType]
  IN        [processedRoots |-> acc.processedRoots \cup {RootId(g, p)},
             powerGen |-> IF config.powerGen > 0
                            THEN acc.powerGen + config.powerGen
                            ELSE acc.powerGen,
             powerDrain |-> IF config.powerGen > 0
                              THEN acc.powerDrain
                              ELSE acc.powerDrain - config.powerGen,
             bioFoodGen |-> acc.bioFoodGen + config.foodGen,
             bioO2Gen |-> acc.bioO2Gen + config.oxygenGen,
             bioCO2Gen |-> acc.bioCO2Gen + config.co2Gen,
             dailyIncome |-> acc.dailyIncome + config.incomeGen,
             dailyPopGrowth |-> acc.dailyPopGrowth + config.popGen,
             dailyScience |-> acc.dailyScience + config.scienceGen,
             buildingCounts |-> [acc.buildingCounts EXCEPT
                                   ![tile.buildingType] = @ + 1]]

\* faulty variant: the processed roots are not consulted
AddTileEveryTile(g, p, acc) ==
  IF g[p].buildingType = "None" THEN acc ELSE AddRoot(g, p, acc)

\* one tile of the forEach over the tiles
AddTile(g, p, acc) ==
  IF g[p].buildingType = "None" \/ RootId(g, p) \in acc.processedRoots
    THEN acc
    ELSE AddRoot(g, p, acc)

RECURSIVE Walk(_, _, _, _)
Walk(g, order, i, acc) ==
  IF i > Len(order) THEN acc
  ELSE Walk(g, order, i + 1, AddTile(g, order[i], acc))

Aggregate(g) == Walk(g, RowMajor, 1, NoTotals)

\* faulty variant: the ratio is not capped at 1
PowerRatioUncapped(t) ==
  IF t.powerDrain > 0 THEN <<t.powerGen, t.powerDrain>> ELSE <<1, 1>>

\* powerRatio = powerDrain > 0 ? Math.min(1, powerGen / powerDrain) : 1, as
\* the fraction <<numerator, denominator>>
PowerRatio(t) ==
  IF t.powerDrain > 0
    THEN IF t.powerGen < t.powerDrain THEN <<t.powerGen, t.powerDrain>>
                                      ELSE <<1, 1>>
    ELSE <<1, 1>>

\* isLowPower = powerRatio < 1
IsLowPower(t) == PowerRatio(t)[1] < PowerRatio(t)[2]

\* faulty variant: the scaled amount is not floored but rounded up
CeilScaled(t, amount) ==
  (amount * PowerRatio(t)[1] + PowerRatio(t)[2] - 1) \div PowerRatio(t)[2]

\* Math.floor(amount * powerRatio)
FloorScaled(t, amount) == (amount * PowerRatio(t)[1]) \div PowerRatio(t)[2]

\* the totals after the power penalty (bioO2Gen is scaled without floor; it
\* is kept to the tenth here)
Penalised(v, t) ==
  IF IsLowPower(t)
    THEN [t EXCEPT !.dailyIncome = FloorScaled(t, @),
                   !.dailyPopGrowth = 0,
                   !.dailyScience = FloorScaled(t, @),
                   !.bioFoodGen = IF v = "extended"
                                    THEN Scale * FloorScaled(t, @ \div Scale)
                                    ELSE @,
                   !.bioO2Gen = IF v = "extended" THEN FloorScaled(t, @) ELSE @]
    ELSE t

HOUSING_CAPACITY == 50

MaxPop(t) == t.buildingCounts["Residential"] * HOUSING_CAPACITY

-----------------------------------------------------------------------------
(* Tick: the stats updater *)

\* faulty variant: the upper clamp is missing
ClampOxygenLow(o) == IF o < 0 THEN 0 ELSE o

ClampOxygen(o) ==
  IF o > 100 * Scale THEN 100 * Scale ELSE IF o < 0 THEN 0 ELSE o

ClampCO2(c) == IF c < 300 * Scale THEN 300 * Scale ELSE c

\* faulty variant: an empty colony keeps the air it had
AtmosphereDrifting(prev, t) ==
  [oxygen |-> ClampOxygen(prev.oxygen + t.bioO2Gen
                            - prev.population * POP_O2_CONSUMPTION),
   co2 |-> ClampCO2(prev.co2 + prev.population * POP_CO2_PRODUCTION
                      + t.bioCO2Gen)]

\* oxygen and co2 after the tick (extended)
Atmosphere(prev, t) ==
  LET pop == prev.population
      newO2 == prev.oxygen + t.bioO2Gen - pop * POP_O2_CONSUMPTION
      newCO2 == prev.co2 + pop * POP_CO2_PRODUCTION + t.bioCO2Gen
      empty == pop = 0 /\ t.processedRoots = {}
  IN [oxygen |-> ClampOxygen(IF empty THEN 100 * Scale ELSE newO2),
      co2 |-> ClampCO2(IF empty THEN 400 * Scale ELSE newCO2)]

\* the food balance before clamping (extended)
FoodBalance(prev, t) ==
  prev.food + t.bioFoodGen - prev.population * POP_FOOD_CONSUMPTION

\* faulty variant: the three causes are summed and floored once
DeathTollFlooredOnce(prev, t) ==
  LET pop == prev.population
      air == Atmosphere(prev, t)
      starvation == IF FoodBalance(prev, t) < 0 THEN 0 - FoodBalance(prev, t)
                                                ELSE 0
  IN (starvation * 10
        + (IF air.oxygen < 10 * Scale THEN pop * 5 * Scale ELSE 0)
        + (IF air.co2 > 2000 * Scale THEN pop * 2 * Scale ELSE 0))
       \div (100 * Scale)

\* starvation, suffocation and toxicity, each floored
DeathToll(prev, t) ==
  LET pop == prev.population
      air == Atmosphere(prev, t)
      starvation == IF FoodBalance(prev, t) < 0 THEN 0 - FoodBalance(prev, t)
                                                ELSE 0
  IN (IF starvation > 0 THEN starvation \div (10 * Scale) ELSE 0)
     + (IF air.oxygen < 10 * Scale THEN (pop * 5) \div 100
        ELSE IF air.oxygen < 5 * Scale THEN (pop * 20) \div 100 ELSE 0)
     + (IF air.co2 > 2000 * Scale THEN (pop * 2) \div 100 ELSE 0)

EVACUATION == 5

\* faulty variant: the housing cap is missing
CapPopNone(newPop, maxPop) == newPop

\* if (newPop > maxPop) newPop = maxPop
CapPop(newPop, maxPop) == IF newPop > maxPop THEN maxPop ELSE newPop

\* newPop of the updater
NewPopulation(v, prev, t) ==
  LET maxPop == MaxPop(t)
      resCount == t.buildingCounts["Residential"]
  IN IF v = "extended"
       THEN LET newPop == prev.population + t.dailyPopGrowth - DeathToll(prev, t)
            IN IF CapPop(newPop, maxPop) < 0 THEN 0
                                               ELSE CapPop(newPop, maxPop)
       ELSE LET newPop == prev.population + t.dailyPopGrowth
                capped == CapPop(newPop, maxPop)
            IN IF resCount = 0 /\ prev.population > 0
                 THEN (IF prev.population - EVACUATION > 0
                         THEN prev.population - EVACUATION ELSE 0)
                 ELSE capped

\* faulty variant: the calendar skips a day
NewStatsSkippingDay(v, prev, t) ==
  [money |-> prev.money + t.dailyIncome,
   population |-> prev.population,
   day |-> prev.day + 2,
   science |-> prev.science + t.dailyScience,
   powerSupply |-> t.powerGen,
   powerDemand |-> t.powerDrain,
   oxygen |-> prev.oxygen,
   co2 |-> prev.co2,
   food |-> prev.food]

NewStats(v, prev, t) ==
  [money |-> prev.money + t.dailyIncome,
   population |-> NewPopulation(v, prev, t),
   day |-> prev.day + 1,
   science |-> prev.science + t.dailyScience,
   powerSupply |-> t.powerGen,
   powerDemand |-> t.powerDrain,
   oxygen |-> IF v = "extended" THEN Atmosphere(prev, t).oxygen ELSE prev.oxygen,
   co2 |-> IF v = "extended" THEN Atmosphere(prev, t).co2 ELSE prev.co2,
   food |-> IF v = "extended"
              THEN (IF FoodBalance(prev, t) < 0 THEN 0 ELSE FoodBalance(prev, t))
              ELSE prev.food]

\* faulty variant: every checked goal counts as met
IsMetAlways(goal, newStats, t) == TRUE

\* faulty variant: the thresholds are compared with > instead of >=
IsMetStrict(goal, newStats, t) ==
  \/ goal.targetType = "money" /\ newStats.money > goal.targetValue
  \/ goal.targetType = "population" /\ newStats.population > goal.targetValue
  \/ goal.targetType = "science" /\ newStats.science > goal.targetValue
  \/ /\ goal.targetType = "building_count"
     /\ goal.buildingType # "None"
     /\ t.buildingCounts[goal.buildingType] > goal.targetValue

\* isMet of the goal check, on the new stats and this tick's counts
IsMet(goal, newStats, t) ==
  \/ goal.targetType = "money" /\ newStats.money >= goal.targetValue
  \/ goal.targetType = "population" /\ newStats.population >= goal.targetValue
  \/ goal.targetType = "science" /\ newStats.science >= goal.targetValue
  \/ /\ goal.targetType = "building_count"
     /\ goal.buildingType # "None"
     /\ t.buildingCounts[goal.buildingType] >= goal.targetValue

\* the goal check runs at all
GoalChecked(goal) == aiEnabledRef /\ goal # NoGoal /\ ~goal.completed

-----------------------------------------------------------------------------
(* Auto-Builder *)

\* tiles the player clicks
Window == (2 .. 3) \X (0 .. 1)

\* tiles the Auto-Builder's random sites are drawn from
AutoWindow == {<<2, 0>>, <<2, 1>>}

AUTO_BUFFER(v) == IF v = "extended" THEN 300 ELSE 500

\* Residential roots as attemptAutoBuild counts them
AutoResidentialCount(g) ==
  Cardinality({p \in Pos :
                 /\ g[p].buildingType = "Residential"
                 /\ \/ g[p].ownerX = Undef
                    \/ g[p].ownerX = p[1] /\ g[p].ownerY = p[2]})

\* the kinds the decision rules may select (the random draws are left open)
AutoCandidates(v, cs, g, available) ==
  IF v = "extended"
    THEN LET maxPop == AutoResidentialCount(g) * HOUSING_CAPACITY
             powerHigh == IF cs.powerSupply > 0
                            THEN cs.powerDemand * 100 > 85 * cs.powerSupply
                            ELSE TRUE
             popHigh == IF maxPop > 0 THEN cs.population * 10 > 9 * maxPop
                                      ELSE TRUE
             critical == \/ cs.oxygen < 80 * Scale
                         \/ cs.food < cs.population * 2 * Scale
             eco == ({"Agriculture", "Commercial", "Industrial", "Park",
                      "GreenRoad"} \cap available)
                    \cup (IF "ResearchLab" \in available /\ cs.money > 2000
                            THEN {"ResearchLab"} ELSE {})
         IN IF critical
              THEN (IF "Agriculture" \in available THEN {"Agriculture"}
                    ELSE IF "Park" \in available THEN {"Park"} ELSE {})
            ELSE IF powerHigh
              THEN (IF "FusionReactor" \in available /\ cs.money > 3500
                      THEN {"FusionReactor"}
                    ELSE IF "SolarPanel" \in available THEN {"SolarPanel"}
                    ELSE {})
            ELSE IF popHigh
              THEN (IF "Residential" \in available THEN {"Residential"} ELSE {})
            ELSE eco
    ELSE available \ {"None", "Road"}

\* faulty variant: the safety buffer is not looked at
AutoTargetsUnbuffered(v, cs, g, available) ==
  {k \in AutoCandidates(v, cs, g, available) : ~(cs.money < BUILDINGS[k].cost)}

\* faulty variant: the cost is not compared with the money
AutoTargetsUnpriced(v, cs, g, available) ==
  IF cs.money < AUTO_BUFFER(v) THEN {}
  ELSE AutoCandidates(v, cs, g, available)

\* the kinds attemptAutoBuild goes on to look for a site for
AutoTargets(v, cs, g, available) ==
  IF cs.money < AUTO_BUFFER(v) THEN {}
  ELSE {k \in AutoCandidates(v, cs, g, available) : ~(cs.money < BUILDINGS[k].cost)}

\* faulty variant: the flatness test of the site loop is missing
AutoSiteUneven(v, g, x, y, kind) ==
  LET config == BUILDINGS[kind]
  IN /\ ~(x < 0 \/ y < 0 \/ x >= MapN \/ y >= MapN)
     /\ ~(x + config.width > MapN \/ y + config.height > MapN)
     /\ \A p \in Rect(x, y, config.width, config.height) :
          g[p].buildingType = "None"

\* an attempt at (x,y) passes the checks of the site loop
AutoSiteValid(v, g, x, y, kind) ==
  LET config == BUILDINGS[kind]
  IN /\ ~(x < 0 \/ y < 0 \/ x >= MapN \/ y >= MapN)
     /\ ~(x + config.width > MapN \/ y + config.height > MapN)
     /\ \A p \in Rect(x, y, config.width, config.height) :
          /\ g[p].buildingType = "None"
          /\ v = "extended" => g[p].height = g[<<x, y>>].height

\* all 20 attempts may fail: in the extended variant an attempt may land
\* outside a map of this size from any hub; in the basic variant the attempts
\* are tiles of the map, one of which must be invalid
AutoMayFail(v, g, kind) ==
  \/ v = "extended"
  \/ \E p \in Pos : ~AutoSiteValid(v, g, p[1], p[2], kind)

\* what attemptAutoBuild may do: nothing, or one building at one site
NoBuild == [kind |-> "None", x |-> Undef, y |-> Undef]

AutoOutcomes(v, cs, g, available) ==
  LET targets == AutoTargets(v, cs, g, available)
      builds == {[kind |-> k, x |-> p[1], y |-> p[2]] :
                   k \in targets, p \in AutoWindow}
  IN {b \in builds : AutoSiteValid(v, g, b.x, b.y, b.kind)}
     \cup (IF \/ targets = {}
              \/ \E k \in AutoCandidates(v, cs, g, available) :
                    cs.money < BUILDINGS[k].cost
              \/ \E k \in targets : AutoMayFail(v, g, k)
             THEN {NoBuild} ELSE {})

-----------------------------------------------------------------------------
(* Tick: the interval callback *)

Tick ==
  /\ gameStarted
  /\ stats.day < MaxDay
  /\ ticks' = ticks + 1
  /\ \E build \in (IF autoGrowthRef
                      THEN AutoOutcomes(variant, statsRef, gridRef,
                                        unlockedBuildingsRef)
                      ELSE {NoBuild}) :
       LET t == Penalised(variant, Aggregate(gridRef))
           cost == IF build = NoBuild THEN 0 ELSE BUILDINGS[build.kind].cost
           prev == [stats EXCEPT !.money = @ - cost]
           newStats == NewStats(variant, prev, t)
           goal == goalRef
           met == GoalChecked(goal) /\ IsMet(goal, newStats, t)
       IN /\ grid' = IF build = NoBuild THEN grid
                      ELSE ApplyFootprint(gridRef, build.x, build.y, build.kind)
          /\ stats' = newStats
          /\ currentGoal' = IF met THEN [goal EXCEPT !.completed = TRUE]
                                   ELSE currentGoal
          /\ last' = [op |-> "tick", x |-> build.x, y |-> build.y,
                       kind |-> build.kind, ok |-> build # NoBuild,
                       money0 |-> stats.money, cost |-> cost,
                       resCount |-> t.buildingCounts["Residential"],
                       pop0 |-> stats.population,
                       met |-> met, goal |-> IF met THEN goal.id ELSE 0,
                       gone |-> "None", rootX |-> Undef, rootY |-> Undef,
                       tech |-> "none", science0 |-> stats.science,
                       redo |-> FALSE, moneyB |-> 0,
                       oxygen0 |-> stats.oxygen, co20 |-> stats.co2]
  /\ UNCHANGED <<service, variant, gameStarted, aiEnabled, autoGrowth,
                 isGeneratingGoal, unlockedTechs, unlockedBuildings, gridRef,
                 statsRef, goalRef, isGeneratingGoalRef, aiEnabledRef,
                 autoGrowthRef, unlockedBuildingsRef,
                 shownTechs, inFlight, retryTimers,
                 nextGoalId, credited, clicks>>

-----------------------------------------------------------------------------
(* Research *)

handleUnlockTech(techId) ==
  /\ gameStarted
  /\ Len(unlockedTechs) < MaxTechs
  /\ IF statsRef.science >= TECH_TREE[techId].cost
       THEN /\ stats' = [stats EXCEPT !.science = @ - TECH_TREE[techId].cost]
            /\ unlockedTechs' = Append(unlockedTechs, techId)
            /\ last' = [NoOp EXCEPT !.op = "research", !.ok = TRUE,
                                    !.tech = techId,
                                    !.cost = TECH_TREE[techId].cost,
                                    !.science0 = stats.science]
       ELSE /\ UNCHANGED <<stats, unlockedTechs>>
            /\ last' = [NoOp EXCEPT !.op = "research", !.tech = techId,
                                    !.science0 = stats.science]
  /\ UNCHANGED <<ticks, service, variant, gameStarted, aiEnabled, autoGrowth, grid,
                 currentGoal, isGeneratingGoal, unlockedBuildings, gridRef,
                 statsRef, goalRef, isGeneratingGoalRef, aiEnabledRef,
                 autoGrowthRef, unlockedBuildingsRef,
                 shownTechs, inFlight, retryTimers,
                 nextGoalId, credited, clicks>>

\* the Research button of the tech panel as last rendered: it is shown for
\* a node that is not unlocked and whose prerequisites are, and enabled when
\* the science shown covers the cost
CanResearch(shown, science, techId) ==
  /\ \A i \in 1 .. Len(shown) : shown[i] # techId
  /\ \A pre \in TECH_TREE[techId].prerequisites :
        \E i \in 1 .. Len(shown) : shown[i] = pre
  /\ science >= TECH_TREE[techId].cost

onUnlock(techId) ==
  /\ CanResearch(shownTechs, statsRef.science, techId)
  /\ handleUnlockTech(techId)

-----------------------------------------------------------------------------

(* Sessions *)

Kinds == {"None", "Road", "GreenRoad", "Residential", "Industrial", "Park",
          "SolarPanel"}

Start == \E enabled \in BOOLEAN : handleStart(enabled, MapN)

Click == \E p \in Window, tool \in Kinds : handleTileClick(p[1], p[2], tool)

Arrive == \E answer \in GoalAnswers : GoalArrives(answer)

Research == \E techId \in TechIds : onUnlock(techId)

Next ==
  \/ Start
  \/ Render
  \/ onToggleAutoGrowth
  \/ Click
  \/ Tick
  \/ Arrive
  \/ GoalFails
  \/ RetryFires
  \/ handleClaimReward
  \/ Research

Spec == Init /\ [][Next]_vars

\* a session without the AI in which the player houses colonists, plants
\* bio-domes and demolishes, and the days pass
StartQuiet == handleStart(FALSE, MapN)

ClickColony ==
  \/ \E tool \in {"None", "Residential"} : handleTileClick(2, 0, tool)
  \/ \E tool \in {"None", "Park"} : handleTileClick(2, 1, tool)

ColonyDays == 4

ColonyTick == stats.day < ColonyDays /\ Tick

NextColony ==
  \/ StartQuiet
  \/ Render
  \/ onToggleAutoGrowth
  \/ ClickColony
  \/ ColonyTick

SpecColony == Init /\ [][NextColony]_vars

\* a session with the AI: goals are requested, met, claimed and replaced
\* while the player builds habitation
StartAI == handleStart(TRUE, MapN)

ClickHabitat ==
  \E p \in {<<2, 0>>, <<3, 0>>} : handleTileClick(p[1], p[2], "Residential")

GoalsDays == 4

GoalsTick == stats.day < GoalsDays /\ Tick

NextGoals ==
  \/ StartAI
  \/ Render
  \/ ClickHabitat
  \/ GoalsTick
  \/ Arrive
  \/ GoalFails
  \/ RetryFires
  \/ handleClaimReward

SpecGoals == Init /\ [][NextGoals]_vars

\* a session without the AI in which the player sets up power and housing
\* and the Auto-Builder builds
ClickSetup ==
  \E tool \in {"None", "Residential"} : handleTileClick(2, 0, tool)

AutoDays == 4

AutoTick == stats.day < AutoDays /\ Tick

NextAuto ==
  \/ StartQuiet
  \/ Render
  \/ onToggleAutoGrowth
  \/ ClickSetup
  \/ AutoTick

SpecAuto == Init /\ [][NextAuto]_vars

\* a session without the AI in which the player lays corridors, upgrades
\* them, builds 2 x 2 modules, demolishes and researches, and the
\* Auto-Builder builds on the first day
ClickLayout ==
  \E p \in {<<3, 1>>, <<4, 2>>},
     tool \in {"None", "Road", "GreenRoad", "Park"} :
    handleTileClick(p[1], p[2], tool)

FirstTick == stats.day < 2 /\ Tick

ResearchEcology == onUnlock("ecology")

NextLayout ==
  \/ StartQuiet
  \/ Render
  \/ onToggleAutoGrowth
  \/ ClickLayout
  \/ ResearchEcology
  \/ FirstTick

SpecLayout == Init /\ [][NextLayout]_vars

\* the treasury: industry is researched, factories are ordered on one
\* site and the Auto-Builder runs on the first tick
ResearchIndustry == onUnlock("industry")

ClickFactory == handleTileClick(2, 1, "Industrial")

NextTreasury ==
  \/ StartQuiet
  \/ Render
  \/ onToggleAutoGrowth
  \/ ResearchIndustry
  \/ ClickFactory
  \/ FirstTick

SpecTreasury == Init /\ [][NextTreasury]_vars

\* orders the validator has to judge: laboratories until the money is gone,
\* a corridor and a locked green corridor, a bio-dome across the plateau
\* edge and one across the map edge, and the bulldozer on two tiles
ClickOrders ==
  \/ \E tool \in {"ResearchLab", "None"} : handleTileClick(2, 1, tool)
  \/ \E tool \in {"Road", "GreenRoad", "None"} : handleTileClick(0, 0, tool)
  \/ handleTileClick(3, 0, "Park")
  \/ handleTileClick(4, 4, "Park")

PlacementTick == stats.day < 2 /\ Tick

NextPlacement ==
  \/ StartQuiet
  \/ Render
  \/ ResearchIndustry
  \/ ClickOrders
  \/ PlacementTick

SpecPlacement == Init /\ [][NextPlacement]_vars

\* the power plant: industry and ecology are researched, a solar panel, a
\* laboratory, a shop, a farm and a habitation module are ordered and the
\* days pass
ClickPower ==
  \/ handleTileClick(2, 0, "SolarPanel")
  \/ handleTileClick(2, 1, "ResearchLab")
  \/ handleTileClick(0, 0, "Commercial")
  \/ handleTileClick(0, 1, "Agriculture")
  \/ handleTileClick(4, 4, "Residential")

PowerDays == 3

PowerTick == stats.day < PowerDays /\ Tick

NextPower ==
  \/ StartQuiet
  \/ Render
  \/ ResearchIndustry
  \/ ResearchEcology
  \/ ClickPower
  \/ PowerTick

SpecPower == Init /\ [][NextPower]_vars

\* the research desk: industry is researched, a solar panel and a
\* laboratory are ordered, the days bring science and fusion is researched
ResearchFusion == onUnlock("fusion")

ClickLab ==
  \/ handleTileClick(2, 0, "SolarPanel")
  \/ handleTileClick(2, 1, "ResearchLab")

ResearchDays == 3

ResearchTick == stats.day < ResearchDays /\ Tick

NextResearch ==
  \/ StartQuiet
  \/ Render
  \/ ResearchIndustry
  \/ ResearchFusion
  \/ ClickLab
  \/ ResearchTick

SpecResearch == Init /\ [][NextResearch]_vars

\* the ledger: a corridor and a habitation module are ordered and the days
\* pass
ClickLedger ==
  \/ handleTileClick(2, 0, "Road")
  \/ handleTileClick(2, 1, "Residential")

LedgerDays == 3

LedgerTick == stats.day < LedgerDays /\ Tick

NextLedger ==
  \/ StartQuiet
  \/ Render
  \/ ClickLedger
  \/ LedgerTick

SpecLedger == Init /\ [][NextLedger]_vars

-----------------------------------------------------------------------------
(* Properties *)

\* a step of the interval callback
TickStep == last'.op = "tick" /\ stats'.day = stats.day + 1

\* the state is the one a tick has just left
AfterTick == last.op = "tick"

Max0(n) == IF n > 0 THEN n ELSE 0

\* C1 as stated: after every tick, in both variants, the population is at
\* least 0 and at most 50 times the Residential roots counted by that tick.
C1_PopulationWithinHousing ==
  AfterTick =>
    /\ stats.population >= 0
    /\ stats.population <= HOUSING_CAPACITY * last.resCount

\* C1 amended: after every tick the population is at least 0; it is at most
\* 50 times the Residential roots counted by that tick, except in the basic
\* variant on a tick that counts no Residential root while colonists remain:
\* there the population is the previous one less 5, floored at 0.
C1_PopulationWithinHousingOrEvacuating ==
  AfterTick =>
    /\ stats.population >= 0
    /\ IF variant = "basic" /\ last.resCount = 0 /\ last.pop0 > 0
         THEN stats.population = Max0(last.pop0 - EVACUATION)
         ELSE stats.population <= HOUSING_CAPACITY * last.resCount

\* the last Residential was demolished with colonists aboard: the basic
\* tick leaves some of them although no housing is counted
C1_Evacuating ==
  /\ variant = "basic"
  /\ AfterTick
  /\ last.resCount = 0
  /\ last.pop0 > 0
  /\ stats.population > 0

\* C2: in the extended variant oxygen stays within 0 and 100 and co2 at or
\* above 300, whatever ticks, placements, demolitions and auto-builds have
\* run.
C2_AtmosphereClamped ==
  variant = "extended" =>
    /\ 0 <= stats.oxygen
    /\ stats.oxygen <= 100 * Scale
    /\ stats.co2 >= 300 * Scale

\* a tick has run out of oxygen with colonists aboard while a bio-dome has
\* pulled co2 down to the baseline
C2_ClampsEngaged ==
  /\ variant = "extended"
  /\ AfterTick
  /\ stats.population > 0
  /\ stats.oxygen = 0
  /\ stats.co2 = 300 * Scale

\* the figure the goal check compares with the target: the stat of the given
\* stats, or the number of roots of the goal's kind on the given grid
MetricOf(goal, st, g) ==
  CASE goal.targetType = "money" -> st.money
    [] goal.targetType = "population" -> st.population
    [] goal.targetType = "science" -> st.science
    [] OTHER -> Aggregate(g).buildingCounts[goal.buildingType]

\* C3 as stated: the reward of a goal instance is added to money exactly
\* once, by handleClaimReward, also when the claim is invoked twice before
\* the goal it reads has been refreshed.
C3_RewardCreditedOnce == \A g \in 1 .. MaxGoals : credited[g] <= 1

\* C4: a goal's completed flag is set only by a tick that found the goal's
\* metric at or above its target; that tick adds income to money and no
\* reward.
C4_CompletedOnlyByTick ==
  [][(currentGoal'.completed /\ currentGoal' # currentGoal) =>
       /\ TickStep
       /\ currentGoal' = [goalRef EXCEPT !.completed = TRUE]
       /\ ~goalRef.completed
       /\ MetricOf(goalRef, stats', gridRef) >= goalRef.targetValue
       /\ credited' = credited
       /\ stats'.money = stats.money - last'.cost
                           + Penalised(variant, Aggregate(gridRef)).dailyIncome
    ]_vars

\* a tick has marked the goal completed and no reward has been paid for it
C4_MarkedUnpaid ==
  /\ AfterTick
  /\ last.met
  /\ currentGoal.completed
  /\ last.goal = currentGoal.id
  /\ credited[currentGoal.id] = 0
  /\ stats.money = last.money0

\* C5 as stated: a goal that arrives from the service never overwrites a
\* goal that is still active, in any interleaving of claims, retries and
\* arrivals.
C5_ArrivalFindsNoGoal == last.op = "arrive" => last.goal = 0

\* C6 as stated: if a goal is active and not completed and the stat a tick
\* computes equals the target, that tick marks the goal completed.
C6_ExactTargetCompletes ==
  [][(/\ TickStep
      /\ aiEnabled
      /\ currentGoal # NoGoal
      /\ ~currentGoal.completed
      /\ MetricOf(currentGoal, stats', gridRef) = currentGoal.targetValue)
     => currentGoal'.completed]_vars

\* C6 amended: if the goal the tick reads (the goal of the last render) is
\* active and not completed and the stat the tick computes equals the
\* target, that tick marks this goal completed.
C6_ExactTargetCompletesRendered ==
  [][(/\ TickStep
      /\ aiEnabledRef
      /\ goalRef # NoGoal
      /\ ~goalRef.completed
      /\ MetricOf(goalRef, stats', gridRef) = goalRef.targetValue)
     => currentGoal' = [goalRef EXCEPT !.completed = TRUE]]_vars

\* a tick has marked a goal completed whose metric equals the target
C6_MarkedAtTarget ==
  /\ AfterTick
  /\ last.met
  /\ currentGoal.completed
  /\ MetricOf(currentGoal, stats, gridRef) = currentGoal.targetValue

\* C7 as stated: the cost of an auto-build never exceeds the money held at
\* the moment of the debit, so an auto-build never drives money negative.
C7_AutoBuildAffordable ==
  (AfterTick /\ last.ok) => last.cost <= last.money0

\* C8: the site of every auto-build passes the player's placement
\* validation on the grid the tick read: the footprint lies in the map, all
\* its tiles are empty and (extended) as high as the origin tile, and the
\* kind is unlocked.
C8_AutoSiteAccepted ==
  [][(TickStep /\ last'.ok) =>
       LET x == last'.x
           y == last'.y
           kind == last'.kind
           footprint == Rect(x, y, BUILDINGS[kind].width, BUILDINGS[kind].height)
       IN /\ footprint \subseteq Pos
          /\ \A p \in footprint : gridRef[p].buildingType = "None"
          /\ variant = "extended" =>
                \A p \in footprint : gridRef[p].height = gridRef[<<x, y>>].height
          /\ kind \in unlockedBuildingsRef
          /\ PlayerAccepts(variant, gridRef, unlockedBuildingsRef, x, y, kind)
    ]_vars

\* the extended Auto-Builder has placed a 2x2 building
C8_AutoPlacedBlock ==
  /\ variant = "extended"
  /\ AfterTick
  /\ last.ok
  /\ BUILDINGS[last.kind].width = 2
  /\ grid[<<last.x + 1, last.y + 1>>].buildingType = last.kind

\* footprint integrity of a grid: every occupied tile names a root of its
\* own kind whose catalog footprint holds it, every tile of a root's
\* footprint belongs to that root, and an empty tile names no root
FootprintIntegrity(g) ==
  \A p \in Pos :
    LET r == RootId(g, p)
        kind == g[p].buildingType
    IN IF kind = "None"
         THEN g[p].ownerX = Undef /\ g[p].ownerY = Undef
         ELSE /\ r \in Pos
              /\ g[r].buildingType = kind
              /\ RootId(g, r) = r
              /\ p \in Rect(r[1], r[2], BUILDINGS[kind].width,
                              BUILDINGS[kind].height)
              /\ \A q \in Rect(r[1], r[2], BUILDINGS[kind].width,
                                BUILDINGS[kind].height) :
                    q \in Pos /\ g[q].buildingType = kind /\ RootId(g, q) = r

\* C9: footprint integrity holds in every state, after placements (the
\* Road to GreenRoad upgrade included), demolitions and auto-builds.
C9_FootprintIntegrity == FootprintIntegrity(grid)

\* a 2x2 building has been demolished by a click on a tile other than its
\* root
C9_BlockDemolishedOffRoot ==
  /\ last.op = "demolish"
  /\ last.ok
  /\ BUILDINGS[gridRef[<<last.x, last.y>>].buildingType].width = 2
  /\ RootId(gridRef, <<last.x, last.y>>) # <<last.x, last.y>>
  /\ grid[RootId(gridRef, <<last.x, last.y>>)].buildingType = "None"

\* C10: after a successful placement of kind K at (x,y) the tiles whose
\* owner is (x,y) are exactly the w x h tiles of the rectangle anchored at
\* (x,y), and each of them is of kind K.
C10_PlacedFootprint ==
  (last.op = "place" /\ last.ok) =>
     LET cfg == BUILDINGS[last.kind]
         footprint == Rect(last.x, last.y, cfg.width, cfg.height)
     IN /\ {p \in Pos : grid[p].ownerX = last.x /\ grid[p].ownerY = last.y}
             = footprint
        /\ Cardinality(footprint) = cfg.width * cfg.height
        /\ \A p \in footprint : grid[p].buildingType = last.kind

\* a 2x2 building has been placed by the player
C10_BlockPlaced ==
  /\ last.op = "place"
  /\ last.ok
  /\ BUILDINGS[last.kind].width = 2
  /\ BUILDINGS[last.kind].height = 2

\* C11: a player placement that the validator has to refuse on what it
\* reads (kind not unlocked, footprint exceeding the map, a covered tile
\* occupied or uneven, money below the cost) leaves the grid and the stats
\* unchanged.
C11_RefusedPlacementChangesNothing ==
  [][(/\ clicks' = clicks + 1
      /\ last'.op = "place"
      /\ LET x == last'.x
             y == last'.y
             kind == last'.kind
             cfg == BUILDINGS[kind]
             covered == Rect(x, y, cfg.width, cfg.height) \cap Pos
         IN \/ kind \notin unlockedBuildingsRef
            \/ x + cfg.width > MapN
            \/ y + cfg.height > MapN
            \/ \E p \in covered :
                  /\ gridRef[p].buildingType # "None"
                  /\ ~(variant = "extended" /\ kind = "GreenRoad"
                         /\ gridRef[p].buildingType = "Road")
            \/ /\ variant = "extended"
               /\ \E p \in covered : gridRef[p].height # gridRef[<<x, y>>].height
            \/ statsRef.money < cfg.cost)
     => (grid' = grid /\ stats' = stats)]_vars

\* a corridor order on a free tile by an unlocked tool has been refused
\* for lack of money alone
C11_RefusedForMoney ==
  /\ last.op = "place"
  /\ ~last.ok
  /\ last.kind = "Road"
  /\ last.kind \in unlockedBuildingsRef
  /\ gridRef[<<last.x, last.y>>].buildingType = "None"
  /\ statsRef.money < BUILDINGS[last.kind].cost
  /\ stats.money = statsRef.money
\* C12: a successful placement debits exactly the catalog cost and raises
\* the number of buildings of that kind, as the aggregation counts them, by
\* exactly one.
C12_PlacementDebitsAndCounts ==
  [][(clicks' = clicks + 1 /\ last'.op = "place" /\ last'.ok)
     => /\ stats'.money = stats.money - BUILDINGS[last'.kind].cost
        /\ Aggregate(grid').buildingCounts[last'.kind]
             = Aggregate(grid).buildingCounts[last'.kind] + 1]_vars

\* C12, for a click that reads the grid as it is: the placement debits
\* exactly the catalog cost and raises the count of its kind by exactly one.
C12_PlacementDebitsAndCountsRendered ==
  [][(clicks' = clicks + 1 /\ last'.op = "place" /\ last'.ok /\ gridRef = grid)
     => /\ stats'.money = stats.money - BUILDINGS[last'.kind].cost
        /\ Aggregate(grid').buildingCounts[last'.kind]
             = Aggregate(grid).buildingCounts[last'.kind] + 1]_vars

\* from 2000 credits a corridor (15) and a habitation module (150) have
\* been placed: 1835 credits are left and one Residential is counted
C12_CorridorAndModulePlaced ==
  /\ last.op = "place"
  /\ last.ok
  /\ last.kind = "Residential"
  /\ stats.money = 1835
  /\ Aggregate(grid).buildingCounts["Residential"] = 1
  /\ Aggregate(grid).buildingCounts["Road"] = 1
\* C13: when a building is demolished and the next click places the same
\* kind at the same origin, the occupancy is restored (the same tiles, of
\* the same kind, with the same root) and the money is lower than before
\* the demolition by exactly 50 + the cost of the kind.
C13_DemolishAndReplaceRestores ==
  (last.op = "place" /\ last.ok /\ last.redo) =>
     LET cfg == BUILDINGS[last.kind]
         footprint == Rect(last.x, last.y, cfg.width, cfg.height)
     IN /\ footprint \subseteq Pos
        /\ \A p \in footprint : /\ grid[p].buildingType = last.kind
                                 /\ RootId(grid, p) = <<last.x, last.y>>
        /\ \A p \in Pos \ footprint : RootId(grid, p) # <<last.x, last.y>>
        /\ stats.money = last.moneyB - DEMOLISH_COST - cfg.cost

\* a bio-dome has been demolished and placed again on its origin
C13_BlockReplaced ==
  /\ last.op = "place"
  /\ last.ok
  /\ last.redo
  /\ last.kind = "Park"
  /\ last.moneyB = 1900
  /\ stats.money = 1750
ColumnMajor ==
  [i \in 1 .. (MapN * MapN) |-> <<(i - 1) \div MapN, (i - 1) % MapN>>]

Backwards == [i \in 1 .. (MapN * MapN) |-> RowMajor[MapN * MapN + 1 - i]]

RECURSIVE SumOver(_, _)
SumOver(S, f) ==
  IF S = {} THEN 0
  ELSE LET k == CHOOSE e \in S : TRUE IN f[k] + SumOver(S \ {k}, f)

\* the distinct roots of the buildings of kind k
RootsOf(g, k) == {RootId(g, p) : p \in {q \in Pos : g[q].buildingType = k}}

\* every building counted once: per kind the number of distinct roots, and
\* each total the sum of the catalog yields over the buildings
CountedOnce(g, t) ==
  LET n == [k \in BuildingType |->
              IF k = "None" THEN 0 ELSE Cardinality(RootsOf(g, k))]
      total(field) == SumOver(BuildingType,
                              [k \in BuildingType |-> n[k] * field[k]])
  IN /\ t.buildingCounts = n
     /\ t.dailyIncome = total([k \in BuildingType |-> BUILDINGS[k].incomeGen])
     /\ t.dailyPopGrowth = total([k \in BuildingType |-> BUILDINGS[k].popGen])
     /\ t.dailyScience
          = total([k \in BuildingType |-> BUILDINGS[k].scienceGen])
     /\ t.bioFoodGen = total([k \in BuildingType |-> BUILDINGS[k].foodGen])
     /\ t.bioO2Gen = total([k \in BuildingType |-> BUILDINGS[k].oxygenGen])
     /\ t.bioCO2Gen = total([k \in BuildingType |-> BUILDINGS[k].co2Gen])
     /\ t.powerGen - t.powerDrain
          = total([k \in BuildingType |-> BUILDINGS[k].powerGen])

\* C15: the totals the aggregation pass computes count each building, also
\* a multi-tile one, exactly once, and are the same in whatever order the
\* tiles are visited.
C15_AggregationCountsRootsOnce ==
  \A g \in {grid, gridRef} :
    /\ CountedOnce(g, Aggregate(g))
    /\ Walk(g, ColumnMajor, 1, NoTotals) = Aggregate(g)
    /\ Walk(g, Backwards, 1, NoTotals) = Aggregate(g)

\* a tick has aggregated a grid with a 2 x 2 laboratory and a corridor: the
\* laboratory draws 10 once, not once per tile
C15_BlockAggregated ==
  /\ AfterTick
  /\ Aggregate(gridRef).buildingCounts["ResearchLab"] = 1
  /\ Aggregate(gridRef).buildingCounts["Road"] = 1
  /\ Cardinality({p \in Pos : gridRef[p].buildingType = "ResearchLab"}) = 4
  /\ stats.powerDemand = 10
\* C16: the power ratio lies in [0, 1]; it is 1 when nothing consumes
\* power; the low-power penalty applies exactly when the production is
\* below the consumption.
C16_PowerRatioBounded ==
  \A g \in {grid, gridRef} :
    LET t == Aggregate(g)
        r == PowerRatio(t)
    IN /\ r[2] > 0
       /\ 0 <= r[1]
       /\ r[1] <= r[2]
       /\ t.powerDrain = 0 => r[1] = r[2]
       /\ IsLowPower(t) <=> t.powerGen < t.powerDrain
       /\ t.powerGen >= t.powerDrain => Penalised(variant, t) = t
       /\ t.powerGen < t.powerDrain =>
            /\ Penalised(variant, t).dailyPopGrowth = 0
            /\ Penalised(variant, t).dailyIncome * r[2] <= t.dailyIncome * r[1]

\* a tick has run with more production than consumption: the ratio is
\* capped at 1
C16_SurplusTick ==
  /\ AfterTick
  /\ stats.powerDemand > 0
  /\ stats.powerSupply > stats.powerDemand
  /\ Aggregate(gridRef).powerGen > Aggregate(gridRef).powerDrain
  /\ Aggregate(gridRef).powerDrain > 0
\* C17: under low power a tick adds floor(income x ratio) to the money and
\* floor(science x ratio) to the science, in the extended variant the food
\* generated is floor(food x ratio), and the population does not grow; with
\* ratio 1 the amounts are added unscaled.
C17_LowPowerScaling ==
  [][TickStep =>
       LET t == Aggregate(gridRef)
           low == t.powerGen < t.powerDrain
           scaled(a) == IF low THEN (a * t.powerGen) \div t.powerDrain ELSE a
       IN /\ stats'.money = stats.money - last'.cost + scaled(t.dailyIncome)
          /\ stats'.science = stats.science + scaled(t.dailyScience)
          /\ variant = "extended" =>
               stats'.food
                 = Max0(stats.food
                          + (IF low THEN Scale * scaled(t.bioFoodGen \div Scale)
                                    ELSE t.bioFoodGen)
                          - stats.population * POP_FOOD_CONSUMPTION)
          /\ low => stats'.population <= stats.population]_vars

\* an extended tick has run with a solar panel (10), a laboratory (10) and
\* a farm (4): ratio 10/14, income floor(5 x 10/14) = 3, science
\* floor(5 x 10/14) = 3, food floor(10 x 10/14) = 7
C17_ScaledTick ==
  /\ AfterTick
  /\ variant = "extended"
  /\ stats.powerSupply = 10
  /\ stats.powerDemand = 14
  /\ Aggregate(gridRef).buildingCounts["Agriculture"] = 1
  /\ Aggregate(gridRef).buildingCounts["ResearchLab"] = 1
  /\ stats.money = last.money0 + 3
  /\ stats.science = last.science0 + 3
  /\ stats.day = 2
  /\ stats.food = (100 + 7) * Scale

\* C18: a tick that counts no Residential while the prior population is
\* positive lowers the population by exactly 5, floored at 0, in both
\* variants.
C18_EvacuationByFive ==
  (AfterTick /\ last.resCount = 0 /\ last.pop0 > 0)
    => stats.population = Max0(last.pop0 - 5)

\* C18 in the basic variant: a tick that counts no Residential while the
\* prior population is positive lowers the population by exactly 5, floored
\* at 0.
C18_EvacuationByFiveBasic ==
  (variant = "basic" /\ AfterTick /\ last.resCount = 0 /\ last.pop0 > 0)
    => stats.population = Max0(last.pop0 - 5)

\* a basic tick without housing has taken the population from 10 to 5
C18_TenBecomesFive ==
  /\ variant = "basic"
  /\ AfterTick
  /\ last.resCount = 0
  /\ last.pop0 = 10
  /\ stats.population = 5
\* C19: research of a tech that is already in the unlocked list debits no
\* science and does not add the id a second time.
C19_ResearchIdempotent ==
  [][(/\ last'.op = "research"
      /\ \E i \in 1 .. Len(unlockedTechs) : unlockedTechs[i] = last'.tech)
     => (unlockedTechs' = unlockedTechs /\ stats'.science = stats.science)]_vars

\* fusion is twice in the unlocked list and has been paid for twice
C19_FusionTwice ==
  /\ Cardinality({i \in 1 .. Len(unlockedTechs) :
                     unlockedTechs[i] = "fusion"}) = 2
  /\ last.op = "research"
  /\ last.tech = "fusion"
  /\ last.ok
\* C20: a research step changes the state only when all prerequisites of
\* the node are unlocked and the science held covers its cost; it then
\* debits exactly the cost and appends the id; the science is never
\* negative.
C20_ResearchGuarded ==
  [][/\ (/\ last'.op = "research"
         /\ (unlockedTechs' # unlockedTechs \/ stats' # stats))
        => /\ \A pre \in TECH_TREE[last'.tech].prerequisites :
                \E i \in 1 .. Len(unlockedTechs) : unlockedTechs[i] = pre
           /\ stats.science >= TECH_TREE[last'.tech].cost
           /\ stats' = [stats EXCEPT
                          !.science = @ - TECH_TREE[last'.tech].cost]
           /\ unlockedTechs' = Append(unlockedTechs, last'.tech)
     /\ stats'.science >= 0]_vars

\* C20, for the science the handler reads: a research step changes the
\* state only when all prerequisites of the node are unlocked and the
\* science of the last render covers its cost; it then debits exactly the
\* cost and appends the id.
C20_ResearchGuardedAsRead ==
  [][(/\ last'.op = "research"
      /\ (unlockedTechs' # unlockedTechs \/ stats' # stats))
     => /\ \A pre \in TECH_TREE[last'.tech].prerequisites :
             \E i \in 1 .. Len(unlockedTechs) : unlockedTechs[i] = pre
        /\ statsRef.science >= TECH_TREE[last'.tech].cost
        /\ stats' = [stats EXCEPT !.science = @ - TECH_TREE[last'.tech].cost]
        /\ unlockedTechs' = Append(unlockedTechs, last'.tech)]_vars

\* fusion has been researched once for 5 science out of 5
C20_FusionResearched ==
  /\ last.op = "research"
  /\ last.ok
  /\ last.tech = "fusion"
  /\ last.science0 = 5
  /\ stats.science = 0
  /\ unlockedTechs = <<"basics", "industry", "fusion">>
\* C21: at any time at most one goal-generation request is in flight.
C21_SingleRequestInFlight == inFlight <= 1
\* C22: a placement that has been paid for is never lost: the building is
\* still in the grid after the next paid placement (by the player or by the
\* Auto-Builder of a tick) that does not cover its origin.
C22_PaidPlacementKept ==
  [][(/\ last.op = "place"
      /\ last.ok
      /\ grid[<<last.x, last.y>>].buildingType = last.kind
      /\ last'.op \in {"place", "tick"}
      /\ last'.ok
      /\ <<last.x, last.y>> \notin Rect(last'.x, last'.y,
                                       BUILDINGS[last'.kind].width,
                                       BUILDINGS[last'.kind].height))
     => grid'[<<last.x, last.y>>].buildingType = last.kind]_vars

-----------------------------------------------------------------------------
(* The extended goal service in operation: calls of generateCityGoal, the   *)
(* awaited request settling, and the clock                                  *)

ServiceFrame ==
  UNCHANGED <<ticks, variant, gameStarted, aiEnabled, autoGrowth, grid, stats,
              currentGoal, isGeneratingGoal, unlockedTechs, unlockedBuildings,
              gridRef, statsRef, goalRef, isGeneratingGoalRef, aiEnabledRef,
              autoGrowthRef, unlockedBuildingsRef, shownTechs, inFlight,
              retryTimers, nextGoalId, credited, clicks, last>>

\* the delays between two events of the service
Delays == {1, COOLDOWN_DURATION_MS - 1, COOLDOWN_DURATION_MS}

ClockAdvances(d) ==
  /\ variant = "extended"
  /\ service.advances < MaxAdvances
  /\ service' = [service EXCEPT !.now = @ + d, !.advances = @ + 1,
                                !.op = "clock"]
  /\ ServiceFrame

\* generateCityGoal up to its await: inside the cooldown it returns a
\* fallback goal at once, otherwise it sends the request
generateCityGoal ==
  /\ variant = "extended"
  /\ service.calls < MaxCalls
  /\ IF service.now < service.apiCooldownUntil
       THEN \E i \in 1 .. Len(FALLBACK_GOALS) :
              service' = [service EXCEPT
                            !.calls = @ + 1, !.localCalls = @ + 1,
                            !.returned = @ + 1, !.op = "local",
                            !.result = getFallbackGoal(statsRef,
                                                       FALLBACK_GOALS[i])]
       ELSE service' = [service EXCEPT
                          !.calls = @ + 1, !.externalCalls = @ + 1,
                          !.pending = @ + 1, !.op = "request"]
  /\ ServiceFrame

\* the request resolves with a text that parses to a goal
generateContentResolves(answer) ==
  /\ service.pending > 0
  /\ service' = [service EXCEPT
                   !.pending = @ - 1, !.returned = @ + 1, !.op = "answered",
                   !.result = [source |-> "service",
                               targetType |-> answer.targetType,
                               targetValue |-> answer.targetValue,
                               buildingType |-> answer.buildingType,
                               reward |-> answer.reward,
                               completed |-> FALSE]]
  /\ ServiceFrame

\* the request resolves without a text: the fallback after the try block
generateContentResolvesEmpty ==
  /\ service.pending > 0
  /\ \E i \in 1 .. Len(FALLBACK_GOALS) :
       service' = [service EXCEPT
                     !.pending = @ - 1, !.returned = @ + 1, !.op = "empty",
                     !.result = getFallbackGoal(statsRef, FALLBACK_GOALS[i])]
  /\ ServiceFrame

\* the claim's rate-limit and server errors
RateLimitOrServerError(error) ==
  \/ error.code \in {429, 500}
  \/ error.status \in {"RESOURCE_EXHAUSTED", "UNKNOWN"}

\* the request, or the parse of its text, throws: the catch block
generateContentThrows(error) ==
  /\ service.pending > 0
  /\ \E i \in 1 .. Len(FALLBACK_GOALS) :
       service' = [service EXCEPT
                     !.pending = @ - 1, !.returned = @ + 1, !.op = "failed",
                     !.apiCooldownUntil =
                        handleApiError(error, service.now, @),
                     !.errorAt = IF RateLimitOrServerError(error)
                                   THEN service.now ELSE @,
                     !.result = getFallbackGoal(statsRef, FALLBACK_GOALS[i])]
  /\ ServiceFrame

NextService ==
  \/ \E d \in Delays : ClockAdvances(d)
  \/ generateCityGoal
  \/ \E answer \in GoalAnswers : generateContentResolves(answer)
  \/ generateContentResolvesEmpty
  \/ \E error \in ApiErrors : generateContentThrows(error)

SpecService == Init /\ [][NextService]_vars

PopulationWith(suffocated) ==
  LET pop == stats.population
      t == Penalised(variant, Aggregate(gridRef))
      balance == stats.food + t.bioFoodGen - pop * POP_FOOD_CONSUMPTION
      starved == IF balance < 0 THEN (0 - balance) \div (10 * Scale) ELSE 0
      poisoned == IF stats'.co2 > 2000 * Scale THEN (pop * 2) \div 100 ELSE 0
      newPop == pop + t.dailyPopGrowth - (starved + suffocated + poisoned)
      maxPop == t.buildingCounts["Residential"] * HOUSING_CAPACITY
  IN Max0(IF newPop > maxPop THEN maxPop ELSE newPop)

\* C26: the suffocation deaths of an extended tick are floor(20% of the
\* population) when the oxygen after the tick is below 5, floor(5%) when it
\* is at least 5 and below 10, and none otherwise.
C26_SuffocationBands ==
  [][(TickStep /\ variant = "extended")
     => stats'.population =
          PopulationWith(IF stats'.oxygen < 5 * Scale
                           THEN (stats.population * 20) \div 100
                         ELSE IF stats'.oxygen < 10 * Scale
                           THEN (stats.population * 5) \div 100
                         ELSE 0)]_vars

-----------------------------------------------------------------------------
\* survival: two habitation modules are ordered and the colony is left to
\* itself until food, oxygen and air run out
ClickSurvival ==
  \/ handleTileClick(2, 0, "Residential")
  \/ handleTileClick(2, 1, "Residential")

SurvivalDays == 26

SurvivalTick == stats.day < SurvivalDays /\ Tick

NextSurvival ==
  \/ StartQuiet
  \/ Render
  \/ ClickSurvival
  \/ SurvivalTick

SpecSurvival == Init /\ [][NextSurvival]_vars

-----------------------------------------------------------------------------
\* the decision of the Auto-Builder under other tech trees: the catalog of
\* techs is not part of the component, so the kinds a running game has
\* unlocked are drawn here; the game has started without the AI and auto
\* growth is switched on
UnlockedKinds ==
  { {"None", "Road", "Residential", "Park", "SolarPanel"},
    {"None", "Road", "Residential", "Park"},
    {"None", "Road", "Residential", "SolarPanel", "Agriculture"},
    {"None", "Road", "Commercial"} }

InitDecision ==
  /\ variant = "extended"
  /\ gameStarted = TRUE
  /\ aiEnabled = FALSE
  /\ autoGrowth = TRUE
  /\ grid = createInitialGrid(variant, MapN)
  /\ stats = InitialStats(variant)
  /\ currentGoal = NoGoal
  /\ isGeneratingGoal = FALSE
  /\ unlockedTechs = INITIAL_UNLOCKED_TECHS
  /\ unlockedBuildings \in UnlockedKinds
  /\ gridRef = grid
  /\ statsRef = stats
  /\ goalRef = currentGoal
  /\ isGeneratingGoalRef = FALSE
  /\ aiEnabledRef = FALSE
  /\ autoGrowthRef = TRUE
  /\ unlockedBuildingsRef = unlockedBuildings
  /\ shownTechs = unlockedTechs
  /\ inFlight = 0
  /\ retryTimers = 0
  /\ nextGoalId = 1
  /\ credited = [g \in 1 .. MaxGoals |-> 0]
  /\ clicks = 0
  /\ last = NoOp
  /\ service = ServiceIdle
  /\ ticks = 0

DecisionDays == 4

DecisionTick == stats.day < DecisionDays /\ Tick

\* the refs follow the grid and the stats (App.tsx 84-85); the kinds stay
\* as drawn
DecisionRender ==
  /\ gridRef # grid \/ statsRef # stats
  /\ gridRef' = grid
  /\ statsRef' = stats
  /\ UNCHANGED <<ticks, service, variant, gameStarted, aiEnabled, autoGrowth, grid,
                 stats, currentGoal, isGeneratingGoal, unlockedTechs,
                 unlockedBuildings, goalRef, isGeneratingGoalRef,
                 aiEnabledRef, autoGrowthRef, unlockedBuildingsRef,
                 shownTechs, inFlight, retryTimers, nextGoalId, credited,
                 clicks, last>>

NextDecision ==
  \/ DecisionTick
  \/ DecisionRender

SpecDecision == InitDecision /\ [][NextDecision]_vars

\* the decision as the claim words it: the rules in priority order, a rule
\* without an unlocked kind to offer passing on to the next
DecisionFallingThrough(cs, g, available) ==
  LET maxPop == AutoResidentialCount(g) * HOUSING_CAPACITY
      critical == cs.oxygen < 80 * Scale \/ cs.food < cs.population * 2 * Scale
      deficit == IF cs.powerSupply > 0
                   THEN cs.powerDemand * 100 > 85 * cs.powerSupply ELSE TRUE
      pressure == IF maxPop > 0 THEN cs.population * 10 > 9 * maxPop ELSE TRUE
      lifeSupport == IF ~critical THEN {}
                     ELSE IF "Agriculture" \in available THEN {"Agriculture"}
                     ELSE {"Park"} \cap available
      power == IF ~deficit THEN {}
               ELSE IF "FusionReactor" \in available /\ cs.money > 3500
                 THEN {"FusionReactor"}
               ELSE {"SolarPanel"} \cap available
      housing == IF ~pressure THEN {} ELSE {"Residential"} \cap available
      economy == ({"Agriculture", "Commercial", "Industrial", "Park",
                   "GreenRoad"} \cap available)
                 \cup (IF "ResearchLab" \in available /\ cs.money > 2000
                         THEN {"ResearchLab"} ELSE {})
  IN IF lifeSupport # {} THEN lifeSupport
     ELSE IF power # {} THEN power
     ELSE IF housing # {} THEN housing
     ELSE economy

-----------------------------------------------------------------------------
\* the buffer: a laboratory and a factory are ordered, which leaves the
\* treasury at 500, and the Auto-Builder runs for two days
ClickBuffer ==
  \/ handleTileClick(0, 0, "ResearchLab")
  \/ handleTileClick(0, 2, "Industrial")

BufferDays == 3

BufferTick == stats.day < BufferDays /\ Tick

NextBuffer ==
  \/ StartQuiet
  \/ Render
  \/ onToggleAutoGrowth
  \/ ResearchIndustry
  \/ ClickBuffer
  \/ BufferTick

SpecBuffer == Init /\ [][NextBuffer]_vars

\* what a tick with auto growth owes the Auto-Builder, the buffer test being
\* lowMoney: no build when the money read is low, no rule yields a kind or
\* no kind yielded is affordable; a build is of a kind the rules yielded,
\* never None or Road, and affordable from the money read; without a build
\* the grid is untouched and the money changes by the income alone
AutoBuildFrame(lowMoney) ==
  LET candidates == AutoCandidates(variant, statsRef, gridRef,
                                   unlockedBuildingsRef)
      income == Penalised(variant, Aggregate(gridRef)).dailyIncome
  IN /\ (\/ lowMoney
         \/ candidates = {}
         \/ \A k \in candidates : BUILDINGS[k].cost > statsRef.money)
          => ~last'.ok
     /\ ~last'.ok => /\ grid' = grid
                     /\ stats'.money = stats.money + income
     /\ last'.ok => /\ last'.kind \in candidates \ {"None", "Road"}
                    /\ BUILDINGS[last'.kind].cost <= statsRef.money
                    /\ stats'.money = stats.money + income
                                        - BUILDINGS[last'.kind].cost

SupplyOf(g) ==
  SumOver({k \in BuildingType : k # "None" /\ BUILDINGS[k].powerGen > 0},
          [k \in BuildingType |->
             Cardinality(RootsOf(g, k)) * BUILDINGS[k].powerGen])

\* tick N with auto growth: at most one building is placed, on top of the
\* grid the tick read; the tick's aggregates are those of that grid, without
\* the new building; the cost is debited in the same tick
AutoBuildThisTick ==
  LET cfg == BUILDINGS[last'.kind]
      income == Penalised(variant, Aggregate(gridRef)).dailyIncome
  IN /\ IF last'.ok
          THEN /\ {p \in Pos : grid'[p] # gridRef[p]}
                    = Rect(last'.x, last'.y, cfg.width, cfg.height)
               /\ stats'.money = stats.money + income - cfg.cost
          ELSE /\ grid' = grid
               /\ stats'.money = stats.money + income
     /\ stats'.powerSupply = SupplyOf(gridRef)
     /\ last'.resCount = Cardinality(RootsOf(gridRef, "Residential"))

\* tick N+1: the aggregates are those of the grid as tick N left it
CountsLastBuild ==
  /\ stats'.powerSupply = SupplyOf(grid)
  /\ last'.resCount = Cardinality(RootsOf(grid, "Residential"))

\* C30: with auto growth a tick places at most one building; a building
\* placed during tick N is not in tick N's aggregates, is paid for in tick
\* N, and is counted by tick N+1.
C30_AutoBuildCountsNextTick ==
  [][(TickStep /\ autoGrowthRef)
     => /\ AutoBuildThisTick
        /\ (last.op = "tick" /\ last.ok) => CountsLastBuild]_vars

\* C30, for a tick N+1 that runs after the render that follows tick N.
C30_AutoBuildCountsNextTickRendered ==
  [][(TickStep /\ autoGrowthRef)
     => /\ AutoBuildThisTick
        /\ (last.op = "tick" /\ last.ok /\ gridRef = grid)
             => CountsLastBuild]_vars

\* tick N has placed a solar panel and tick N+1 a second one: the tick has
\* counted the first (supply 10) and not yet the second, and both are paid
C30_SecondPanelNotYetCounted ==
  /\ AfterTick
  /\ last.ok
  /\ last.kind = "SolarPanel"
  /\ Cardinality(RootsOf(grid, "SolarPanel")) = 2
  /\ stats.powerSupply = 10
  /\ stats.money = INITIAL_MONEY - 2 * BUILDINGS["SolarPanel"].cost

\* the ids in the list of unlocked techs
TechSet(techs) == {techs[i] : i \in 1 .. Len(techs)}

\* C31: once the effect that follows the research actions has run, the
\* placeable kinds are None and the kinds unlocked by every unlocked tech;
\* the unlocked techs and the placeable kinds only ever grow.
C31_PlaceableKindsDerived ==
  [][/\ shownTechs' = unlockedTechs'
          => unlockedBuildings'
               = {"None"} \cup {k \in BuildingType :
                                  \E id \in TechSet(unlockedTechs') :
                                     k \in TECH_TREE[id].unlocks}
     /\ TechSet(unlockedTechs) \subseteq TechSet(unlockedTechs')
     /\ unlockedBuildings \subseteq unlockedBuildings']_vars

\* industry and fusion have been researched and the effect has run: the
\* laboratory and the reactor are placeable beside the first kinds
C31_FusionPlaceable ==
  /\ shownTechs = unlockedTechs
  /\ TechSet(unlockedTechs) = {"basics", "industry", "fusion"}
  /\ {"Residential", "ResearchLab", "FusionReactor"} \subseteq unlockedBuildings


\* no tile of the grid the tick reads holds a building
NoBuildingRead == \A p \in DOMAIN gridRef : gridRef[p].buildingType = "None"

\* C32: in an extended tick that finds no population and no building in the
\* grid it reads, oxygen becomes 100 and CO2 400 whatever they were; in every
\* other extended tick oxygen is the previous oxygen plus the generated
\* oxygen less the colonists' consumption, kept within 0..100, and CO2 the
\* previous CO2 plus the colonists' and the buildings' CO2, kept at 300 or
\* above.
C32_AtmosphereResetOrBalance ==
  [][(TickStep /\ variant = "extended")
       => LET t == Penalised(variant, Aggregate(gridRef))
              pop == stats.population
              o2 == stats.oxygen + t.bioO2Gen - pop * POP_O2_CONSUMPTION
              co2 == stats.co2 + pop * POP_CO2_PRODUCTION + t.bioCO2Gen
          IN IF pop = 0 /\ NoBuildingRead
               THEN /\ stats'.oxygen = 100 * Scale
                    /\ stats'.co2 = 400 * Scale
               ELSE /\ stats'.oxygen
                         = (IF o2 > 100 * Scale THEN 100 * Scale
                            ELSE IF o2 < 0 THEN 0 ELSE o2)
                    /\ stats'.co2
                         = (IF co2 < 300 * Scale THEN 300 * Scale ELSE co2)]_vars

\* a tick found the colony empty after the air had been used up: oxygen is
\* back at 100 and CO2 at 400
C32_EmptyColonyReset ==
  /\ variant = "extended"
  /\ AfterTick
  /\ last.pop0 = 0
  /\ NoBuildingRead
  /\ last.oxygen0 < 100 * Scale
  /\ last.co20 > 400 * Scale
  /\ stats.oxygen = 100 * Scale
  /\ stats.co2 = 400 * Scale

\* the built tiles, in the grid the click reads, under the footprint of the
\* tool placed at (x,y)
OccupiedUnder(x, y, tool) ==
  {p \in Rect(x, y, BUILDINGS[tool].width, BUILDINGS[tool].height)
           \cap DOMAIN gridRef : gridRef[p].buildingType # "None"}

C33_RoadOverGreenRoadRefused ==
  /\ variant = "extended"
  /\ last.op = "place"
  /\ ~last.ok
  /\ last.kind = "Road"
  /\ "Road" \in unlockedBuildingsRef
  /\ statsRef.money >= BUILDINGS["Road"].cost
  /\ gridRef[<<last.x, last.y>>].buildingType = "GreenRoad"

\* C34: a tick advances day by exactly 1, adds the aggregated income and
\* science, both scaled down and floored under low power, to money (net of
\* the cost of the building the same tick auto-built) and to science, and
\* sets powerSupply and powerDemand to the production and consumption it
\* aggregated; nothing else moves the day, so after k ticks day = 1 + k.
C34_TickAdvancesDayAndLedger ==
  /\ [](stats.day = 1 + ticks)
  /\ [][/\ ticks' # ticks =>
             LET t == Aggregate(gridRef)
                 adjusted(a) == IF t.powerDrain > 0 /\ t.powerGen < t.powerDrain
                                  THEN (a * t.powerGen) \div t.powerDrain
                                  ELSE a
             IN /\ ticks' = ticks + 1
                /\ stats'.day = stats.day + 1
                /\ stats'.money
                     = stats.money - last'.cost + adjusted(t.dailyIncome)
                /\ stats'.science = stats.science + adjusted(t.dailyScience)
                /\ stats'.powerSupply = t.powerGen
                /\ stats'.powerDemand = t.powerDrain
        /\ stats'.day # stats.day => ticks' # ticks]_vars

\* the second tick, under low power: a solar panel feeds a laboratory and
\* a commercial block, and 10 of the 15 credits and 3 of the 5 science
\* points come in
C34_SecondTickUnderLowPower ==
  /\ AfterTick
  /\ ticks = 2
  /\ stats.day = 3
  /\ stats.powerSupply = 10
  /\ stats.powerDemand = 14
  /\ Aggregate(gridRef).dailyIncome = 15
  /\ stats.money = last.money0 + 10
  /\ stats.science = last.science0 + 3

-----------------------------------------------------------------------------
(* A session with clicks before and after the start                         *)

\* handleTileClick before the game has started: the handler returns at once
handleTileClickBeforeStart(x, y, tool) ==
  /\ ~gameStarted
  /\ clicks < MaxClicks
  /\ clicks' = clicks + 1
  /\ last' = [NoOp EXCEPT !.op = "early", !.x = x, !.y = y, !.kind = tool]
  /\ UNCHANGED <<grid, stats>>
  /\ ClickFrame

ClickEarly ==
  \E tool \in {"None", "Residential"} : handleTileClickBeforeStart(2, 0, tool)

FrameDays == 3

FrameTick == stats.day < FrameDays /\ Tick

NextFrame ==
  \/ ClickEarly
  \/ StartQuiet
  \/ Render
  \/ onToggleAutoGrowth
  \/ ClickColony
  \/ FrameTick

SpecFrame == Init /\ [][NextFrame]_vars

\* the tiles a click may rewrite: the footprint of the placed kind at the
\* clicked tile, or the footprint of the demolished building at its root
AffectedFootprint(note) ==
  IF ~note.ok THEN {}
  ELSE IF note.op = "place"
         THEN Rect(note.x, note.y, BUILDINGS[note.kind].width,
                   BUILDINGS[note.kind].height)
         ELSE Rect(note.rootX, note.rootY, BUILDINGS[note.gone].width,
                   BUILDINGS[note.gone].height)

\* what C35 says of one step; rendered restricts the clicks and the ticks
\* to those that read the grid and the switch as they are
FrameOfStep(rendered) ==
  /\ (/\ clicks' = clicks + 1
      /\ last'.op \in {"place", "demolish"}
      /\ rendered => gridRef = grid)
       => /\ stats' = [stats EXCEPT !.money = stats'.money]
          /\ \A p \in Pos \ AffectedFootprint(last') : grid'[p] = grid[p]
  /\ gameStarted
       => /\ DOMAIN grid' = DOMAIN grid
          /\ \A p \in DOMAIN grid : grid'[p].height = grid[p].height
  /\ (/\ ticks' # ticks
      /\ ~autoGrowth
      /\ rendered => autoGrowthRef = autoGrowth)
       => grid' = grid
  /\ (clicks' = clicks + 1 /\ ~gameStarted)
       => /\ grid' = grid
          /\ stats' = stats
          /\ currentGoal' = currentGoal
          /\ unlockedTechs' = unlockedTechs
          /\ gameStarted' = gameStarted

\* C35: a player placement or demolition changes only money among the
\* stats and only the tiles of the affected footprint in the grid; after
\* the start no step changes the tiles' coordinates, the terrain heights
\* or the size of the grid; a tick with auto-growth switched off leaves the
\* grid unchanged; a click before the start changes nothing.
C35_FrameOfClicksAndTicks == [][FrameOfStep(FALSE)]_vars

\* C35, for the clicks that read the grid as it is and the ticks that read
\* the switch as it is.
C35_FrameOfClicksAndTicksRendered == [][FrameOfStep(TRUE)]_vars

\* a bio-dome has been placed beside the habitat: the tiles that differ
\* from the grid the click read are the four of its footprint, the habitat
\* stands, and only the price has left the stats
C35_DomePlacedBesideHabitat ==
  /\ last.op = "place"
  /\ last.ok
  /\ last.kind = "Park"
  /\ {p \in Pos : grid[p] # gridRef[p]} = Rect(2, 1, 2, 2)
  /\ grid[<<2, 0>>].buildingType = "Residential"
  /\ gridRef[<<2, 0>>].buildingType = "Residential"
  /\ stats = [statsRef EXCEPT !.money = @ - 100]

\* C36: money is never negative, whatever the sequence and interleaving of
\* player placements, demolitions, auto-builds, ticks and reward claims.
C36_MoneyNeverNegative == stats.money >= 0

\* C36, step by step: a step that reads the money as it is never takes it
\* below 0.
C36_MoneyNeverNegativeRendered ==
  [][(statsRef.money = stats.money /\ stats.money >= 0)
       => stats'.money >= 0]_vars

\* the auto-builder has read the money as it is, 500 credits, and paid a
\* building out of it
C36_PaidOutOfLastCredits ==
  /\ AfterTick
  /\ last.ok
  /\ statsRef.money = last.money0
  /\ last.money0 = 500
  /\ last.cost > 0
  /\ stats.money >= 0
  /\ stats.money < 500

-----------------------------------------------------------------------------
(* A session of contracts with the AI enabled: goals arrive, are met by the *)
(* ticks and claimed. Every awaited call of the service settles, the retry  *)
(* timer fires, React renders, and the service does not answer null for     *)
(* ever.                                                                    *)

ContractDays == 3

ContractTick == stats.day < ContractDays /\ Tick

NextContracts ==
  \/ StartAI
  \/ Render
  \/ ContractTick
  \/ Arrive
  \/ GoalFails
  \/ RetryFires
  \/ handleClaimReward

SpecContracts ==
  /\ Init
  /\ [][NextContracts]_vars
  /\ WF_vars(Render)
  /\ WF_vars(Arrive \/ GoalFails)
  /\ WF_vars(RetryFires)
  /\ SF_vars(Arrive)

\* a request is in flight that cannot arrive within the bound on goal ids
GoalIdsUsedUp == inFlight > 0 /\ nextGoalId > MaxGoals

\* C37: with the AI enabled, whenever no goal is active (after the start and
\* after a reward claim) a goal eventually becomes active, the flag
\* isGeneratingGoal eventually returns to false, and an armed retry is
\* eventually issued as a request.
C37_GoalEventuallyActive ==
  /\ (gameStarted /\ aiEnabled /\ currentGoal = NoGoal)
       ~> (currentGoal # NoGoal \/ GoalIdsUsedUp)
  /\ isGeneratingGoal ~> (~isGeneratingGoal \/ GoalIdsUsedUp)
  /\ (retryTimers > 0) ~> (retryTimers = 0 \/ GoalIdsUsedUp)

\* C37, the flag and the retry: the flag isGeneratingGoal eventually returns
\* to false and an armed retry is eventually issued, whatever the flag
\* says: the timer that fires takes a request in flight and raises the
\* flag, and a null answer arms the timer.
C37_FlagClearsAndRetryIssued ==
  /\ isGeneratingGoal ~> (~isGeneratingGoal \/ GoalIdsUsedUp)
  /\ (retryTimers > 0) ~> (retryTimers = 0 \/ GoalIdsUsedUp)
  /\ [][/\ (retryTimers' < retryTimers /\ aiEnabledRef)
             => (inFlight' = inFlight + 1 /\ isGeneratingGoal')
        /\ (inFlight' < inFlight /\ currentGoal' = currentGoal /\ aiEnabledRef)
             => (retryTimers' = retryTimers + 1 /\ ~isGeneratingGoal')]_vars

\* the retry has been issued while another request was in flight
C37_RetryBesideRequest ==
  /\ last.op = "retry"
  /\ inFlight = 2
  /\ isGeneratingGoal

-----------------------------------------------------------------------------
(* The fallback goals of the extended service, for a colony in mid-game:    *)
(* the stats the service is handed are drawn from samples                   *)

MoneySamples == {0, 1, 3, 2000, 6001}
PopulationSamples == {0, 4, 50, 99}
ScienceSamples == {0, 7, 100}

InitFallback ==
  /\ variant = "extended"
  /\ gameStarted = TRUE
  /\ aiEnabled = TRUE
  /\ autoGrowth = FALSE
  /\ grid = createInitialGrid(variant, MapN)
  /\ \E m \in MoneySamples, p \in PopulationSamples, sc \in ScienceSamples :
       stats = [InitialStats(variant) EXCEPT !.money = m, !.population = p,
                                             !.science = sc]
  /\ currentGoal = NoGoal
  /\ isGeneratingGoal = TRUE
  /\ unlockedTechs = INITIAL_UNLOCKED_TECHS
  /\ unlockedBuildings = DeriveUnlocked(unlockedTechs)
  /\ gridRef = grid
  /\ statsRef = stats
  /\ goalRef = currentGoal
  /\ isGeneratingGoalRef = TRUE
  /\ aiEnabledRef = TRUE
  /\ autoGrowthRef = FALSE
  /\ unlockedBuildingsRef = unlockedBuildings
  /\ shownTechs = unlockedTechs
  /\ inFlight = 1
  /\ retryTimers = 0
  /\ nextGoalId = 1
  /\ credited = [g \in 1 .. MaxGoals |-> 0]
  /\ clicks = 0
  /\ last = NoOp
  /\ service = ServiceIdle
  /\ ticks = 0

NextFallback ==
  \/ generateCityGoal
  \/ generateContentResolvesEmpty
  \/ \E error \in {ApiError(429, ""), ApiError(0, "")} :
       generateContentThrows(error)

SpecFallback == InitFallback /\ [][NextFallback]_vars

\* n is the integer part of num / den, for num >= 0
IsFloorOf(n, num, den) == den * n <= num /\ num < den * (n + 1)

\* C38: a fallback goal is issued uncompleted; for money, population and
\* science its target is floor(1.5 money) + 1000, floor(1.2 population) + 15
\* and floor(1.2 science) + 50 of the stats handed to the service, which for
\* a non-negative stat is strictly above it, so that the goal check of a
\* tick does not find it met while the stat is at or below that value; a
\* building_count goal keeps the target of its template.
C38_FallbackTargetAboveStat ==
  service.result.source = "fallback"
    => LET goal == service.result
           st == statsRef
           below(field, v) ==
             \A w \in 0 .. 3 :
               v - w >= 0 =>
                 ~IsMet(goal, [st EXCEPT ![field] = v - w],
                        Aggregate(gridRef))
       IN /\ goal.completed = FALSE
          /\ goal.targetType = "money" =>
               /\ IsFloorOf(goal.targetValue - 1000, 3 * st.money, 2)
               /\ st.money >= 0 => goal.targetValue > st.money
               /\ below("money", st.money)
          /\ goal.targetType = "population" =>
               /\ IsFloorOf(goal.targetValue - 15, 6 * st.population, 5)
               /\ st.population >= 0 => goal.targetValue > st.population
               /\ below("population", st.population)
          /\ goal.targetType = "science" =>
               /\ IsFloorOf(goal.targetValue - 50, 6 * st.science, 5)
               /\ st.science >= 0 => goal.targetValue > st.science
               /\ below("science", st.science)
          /\ goal.targetType = "building_count" =>
               \E i \in 1 .. Len(FALLBACK_GOALS) :
                 /\ FALLBACK_GOALS[i].targetType = "building_count"
                 /\ FALLBACK_GOALS[i].buildingType = goal.buildingType
                 /\ FALLBACK_GOALS[i].targetValue = goal.targetValue

\* with 6001 credits in hand, above the 5000 of the template, the money
\* goal issued asks for 10001
C38_MoneyGoalAboveTemplate ==
  /\ service.result.source = "fallback"
  /\ service.result.targetType = "money"
  /\ statsRef.money = 6001
  /\ service.result.targetValue = 10001
  /\ ~service.result.completed

====
